---- MODULE Spec2Model ----
(***************************************************************************)
(* Token aggregation, correlation-id pairing and session life cycle of the *)
(* streaming transcription client (SonioxProvider / SonioxTranscribe).     *)
(*                                                                         *)
(* A text is a sequence of one-character strings, so that rstrip, endswith *)
(* and join are computed as Python computes them.  An optional numeric     *)
(* field of a backend token is Some(v), Absent (key missing) or Null (key  *)
(* present, JSON null); an optional string field is the string itself or   *)
(* "None".  A confidence is kept in hundredths, a mean as the exact        *)
(* fraction num/den, and a timestamp start_ms / 1000.0 by its milliseconds.*)
(***************************************************************************)
EXTENDS Integers, Sequences, FiniteSets, TLC

VARIABLES
    is_continuous,        \* transcribe_stream(is_continuous=...)
    translation_enabled,  \* SonioxProvider._translation_enabled
    output_format,        \* SonioxTranscribe.output_format
    final_buffer,         \* SonioxProvider._final_buffer (tokens)
    original_buffer,      \* SonioxProvider._original_buffer (texts)
    translation_buffer,   \* SonioxProvider._translation_buffer (texts)
    last_partial,         \* local of _receive_transcripts
    current_message_id,   \* SonioxTranscribe.current_message_id
    uuid_calls,           \* number of uuid.uuid4() calls made so far
    channel,              \* "open" while `async for message in websocket` runs
    received,             \* every inbound message handled so far, in order
    emitted,              \* every result yielded by _receive_transcripts
    printed,              \* every record written by _output_result
    units,                \* tokens (or token-less messages) received so far
    phase,                \* where transcribe_stream stands
    transport,            \* the websocket connection
    send_task,            \* where the task running _send_audio stands
    outbound,             \* every frame written to the websocket, in order
    attempts,             \* sends tried by the cancellation cleanup of _send_audio
    cancel_requested,     \* send_task.cancel() has been called
    caller_cancelled,     \* cancellation of the task consuming transcribe_stream
    outcome,              \* how transcribe_stream ended
    fault,                \* the transport fault the session met, if any
    translate,            \* transcribe_stream(translate=...) of this session
    file_result           \* what transcribe_file has returned, if it has

\* the state of the session manager
session == <<phase, transport, send_task, outbound, attempts,
             cancel_requested, caller_cancelled, outcome, fault>>

vars == <<is_continuous, translation_enabled, output_format, final_buffer,
          original_buffer, translation_buffer, last_partial,
          current_message_id, uuid_calls, channel, received, emitted,
          printed, units, phase, transport, send_task, outbound, attempts,
          cancel_requested, caller_cancelled, outcome, fault, translate,
          file_result>>

----------------------------------------------------------------------------
(* Bounds of the model *)

\* tokens (a message without tokens counts one) a run of Spec receives
MaxTokens == 3
\* the same for a run of SpecPair
MaxPairTokens == 4
\* batches a run of SpecCap receives, one final token each
MaxDrip == 12
\* audio chunks the source of a run of SpecSession produces
MaxChunks == 2
\* inbound messages a run of SpecSession receives
MaxInbound == 2

----------------------------------------------------------------------------
(* Optional values *)

Some(v) == [k |-> "some", v |-> v]
Absent == [k |-> "absent", v |-> 0]
Null == [k |-> "null", v |-> 0]

\* dict.get(key, default): the default only replaces a missing key
Get(field, default) == IF field.k = "absent" THEN Some(default) ELSE field

----------------------------------------------------------------------------
(* Python string operations on texts *)

Whitespace == {" "}

RECURSIVE rstrip(_)
rstrip(s) ==
    IF s = <<>> THEN s
    ELSE IF s[Len(s)] \in Whitespace THEN rstrip(SubSeq(s, 1, Len(s) - 1))
    ELSE s

RECURSIVE lstrip(_)
lstrip(s) ==
    IF s = <<>> THEN s
    ELSE IF s[1] \in Whitespace THEN lstrip(Tail(s))
    ELSE s

strip(s) == lstrip(rstrip(s))

\* str.endswith(tuple of one-character suffixes)
endswith(s, suffixes) == s # <<>> /\ s[Len(s)] \in suffixes

\* "".join(texts)
RECURSIVE join(_)
join(texts) ==
    IF texts = <<>> THEN <<>> ELSE Head(texts) \o join(Tail(texts))

TextsOf(tokens) == [i \in 1..Len(tokens) |-> tokens[i].text]

----------------------------------------------------------------------------
(* Tokens, inbound messages and emitted segments *)

Tok(text, is_final, language, confidence, start_ms, status, source) ==
    [text |-> text, is_final |-> is_final, language |-> language,
     confidence |-> confidence, start_ms |-> start_ms,
     translation_status |-> status, source_language |-> source]

\* a JSON object with a "tokens" array
TokensMsg(tokens) ==
    [kind |-> "json", has_error |-> FALSE, has_error_code |-> FALSE,
     error |-> "None", error_message |-> "absent", tokens |-> tokens]

\* a JSON object with an "error" and/or "error_code" key
ErrorMsg(has_error, error, has_code, error_message) ==
    [kind |-> "json", has_error |-> has_error, has_error_code |-> has_code,
     error |-> error, error_message |-> error_message, tokens |-> <<>>]

\* a frame json.loads rejects
MalformedMsg ==
    [kind |-> "malformed", has_error |-> FALSE, has_error_code |-> FALSE,
     error |-> "None", error_message |-> "absent", tokens |-> <<>>]

\* the dict a generator yields; a key the dict lacks is "absent"
Segment(text, language, confidence, is_final, timestamp, status, source, mixed) ==
    [text |-> text, language |-> language, confidence |-> confidence,
     is_final |-> is_final, timestamp |-> timestamp,
     translation_status |-> status, source_language |-> source,
     mixed_format |-> mixed]

NoneVal == [k |-> "none", v |-> 0]
Mean(num, den) == [k |-> "mean", num |-> num, den |-> den]
NoMean == [k |-> "none", num |-> 0, den |-> 1]

\* a normalizer that folds no dialect
normalize_language_code_Unfolded(language) == language

normalize_language_code(language) ==
    IF language = "bs" THEN "hr" ELSE language

----------------------------------------------------------------------------
(* Plain segmentation: SonioxProvider._receive_transcripts, lines 190-253 *)

SentenceEndings == {".", "!", "?", ":", ";"}
MaxBufferedTokens == 10

IsFinal(t) == t.is_final
IsPartial(t) == ~t.is_final

RECURSIVE ConfidenceSum(_)
ConfidenceSum(tokens) ==
    IF tokens = <<>> THEN 0
    ELSE Get(Head(tokens).confidence, 0).v + ConfidenceSum(Tail(tokens))

\* sum(...) over a None, or None / 1000.0, raises TypeError
SumRaises(tokens) == \E i \in 1..Len(tokens) : tokens[i].confidence.k = "null"
TimestampRaises(token) == token.start_ms.k = "null"

\* start_ms / 1000.0 with .get("start_ms", 0)
Timestamp(token) == Some(Get(token.start_ms, 0).v)

\* lines 206-208 with the test for partial tokens left out of (c)
ShouldFlush_IgnoringPartials(buffer, tokens, partial_tokens) ==
    \/ endswith(rstrip(join(TextsOf(buffer))), SentenceEndings)
    \/ Len(buffer) > MaxBufferedTokens
    \/ (Len(buffer) > 0 /\ tokens[Len(tokens)].is_final)

\* lines 206-208 with the cap reached one token early
ShouldFlush_AtCap(buffer, tokens, partial_tokens) ==
    \/ endswith(rstrip(join(TextsOf(buffer))), SentenceEndings)
    \/ Len(buffer) >= MaxBufferedTokens
    \/ (Len(buffer) > 0 /\ tokens[Len(tokens)].is_final /\ partial_tokens = <<>>)

\* the condition of lines 206-208 on the extended buffer
ShouldFlush(buffer, tokens, partial_tokens) ==
    \/ endswith(rstrip(join(TextsOf(buffer))), SentenceEndings)
    \/ Len(buffer) > MaxBufferedTokens
    \/ (Len(buffer) > 0 /\ tokens[Len(tokens)].is_final /\ partial_tokens = <<>>)

\* lines 211-237 with the text of the last token only
PlainSegment_LastTokenText(buffer, translating) ==
    Segment(buffer[Len(buffer)].text,
            IF buffer[1].language = "bs" THEN "hr" ELSE buffer[1].language,
            Mean(ConfidenceSum(buffer), Len(buffer)),
            TRUE, Timestamp(buffer[1]), "absent", "absent", translating)

\* lines 211-237
PlainSegment(buffer, translating) ==
    Segment(join(TextsOf(buffer)),
            IF buffer[1].language = "bs" THEN "hr" ELSE buffer[1].language,
            Mean(ConfidenceSum(buffer), Len(buffer)),
            TRUE, Timestamp(buffer[1]), "absent", "absent", translating)

\* lines 243-253
PartialSegment(partial_tokens) ==
    Segment(join(TextsOf(partial_tokens)), partial_tokens[1].language, NoMean,
            FALSE, Timestamp(partial_tokens[1]), "absent", "absent", FALSE)

\* a final-token half that flushes what it holds when a batch brings no final
\* token
PlainFinals_FlushWithoutFinals(tokens, buffer, translating) ==
    LET final_tokens == SelectSeq(tokens, IsFinal)
        partial_tokens == SelectSeq(tokens, IsPartial)
        extended == buffer \o final_tokens
    IN  IF extended = <<>>
        THEN [buffer |-> buffer, results |-> <<>>, raised |-> FALSE]
        ELSE IF final_tokens # <<>>
                /\ ~ShouldFlush(extended, tokens, partial_tokens)
        THEN [buffer |-> extended, results |-> <<>>, raised |-> FALSE]
        ELSE IF SumRaises(extended) \/ TimestampRaises(extended[1])
        THEN [buffer |-> extended, results |-> <<>>, raised |-> TRUE]
        ELSE [buffer |-> <<>>,
              results |-> <<PlainSegment(extended, translating)>>,
              raised |-> FALSE]

\* The final-token half of a batch (lines 194-240): the buffer after it, what
\* it yields, and whether building the segment raised.
PlainFinals(tokens, buffer, translating) ==
    LET final_tokens == SelectSeq(tokens, IsFinal)
        partial_tokens == SelectSeq(tokens, IsPartial)
        extended == buffer \o final_tokens
    IN  IF final_tokens = <<>>
        THEN [buffer |-> buffer, results |-> <<>>, raised |-> FALSE]
        ELSE IF ~ShouldFlush(extended, tokens, partial_tokens)
        THEN [buffer |-> extended, results |-> <<>>, raised |-> FALSE]
        ELSE IF SumRaises(extended) \/ TimestampRaises(extended[1])
        THEN [buffer |-> extended, results |-> <<>>, raised |-> TRUE]
        ELSE [buffer |-> <<>>,
              results |-> <<PlainSegment(extended, translating)>>,
              raised |-> FALSE]

\* The partial-token half (lines 243-253): the remembered preview after it, what
\* it yields, and whether building the preview raised.
PlainPartials(tokens, previous) ==
    LET partial_tokens == SelectSeq(tokens, IsPartial)
        partial_text == join(TextsOf(partial_tokens))
    IN  IF partial_tokens = <<>> \/ partial_text = <<>> \/ partial_text = previous
        THEN [last_partial |-> previous, results |-> <<>>, raised |-> FALSE]
        ELSE IF TimestampRaises(partial_tokens[1])
        THEN [last_partial |-> partial_text, results |-> <<>>, raised |-> TRUE]
        ELSE [last_partial |-> partial_text,
              results |-> <<PartialSegment(partial_tokens)>>,
              raised |-> FALSE]

\* a batch whose preview is yielded before its final segment
ProcessPlain_PreviewFirst(tokens, buffer, previous, translating) ==
    LET f == PlainFinals(tokens, buffer, translating)
        p == PlainPartials(tokens, previous)
    IN  IF f.raised
        THEN [final_buffer |-> f.buffer, last_partial |-> previous,
              results |-> <<>>]
        ELSE [final_buffer |-> f.buffer, last_partial |-> p.last_partial,
              results |-> p.results \o f.results]

\* One batch in plain mode.  An exception ends the handling of the batch
\* (`except Exception: continue`) and keeps what was assigned before it.
ProcessPlain(tokens, buffer, previous, translating) ==
    LET f == PlainFinals(tokens, buffer, translating)
        p == PlainPartials(tokens, previous)
    IN  IF f.raised
        THEN [final_buffer |-> f.buffer, last_partial |-> previous,
              results |-> <<>>]
        ELSE [final_buffer |-> f.buffer, last_partial |-> p.last_partial,
              results |-> f.results \o p.results]

----------------------------------------------------------------------------
(* Translation pairing: process_translation_tokens *)

PairEndings == {".", "!", "?", ",", ":"}

\* text.rstrip().endswith(('.', '!', '?', ',', ':'))
PairShouldFlush(text) == endswith(rstrip(text), PairEndings)

\* token.get("start_ms", 0) / 1000.0 if "start_ms" in token else None
PairTimestamp(token) ==
    IF token.start_ms.k = "absent" THEN NoneVal ELSE Some(token.start_ms.v)

\* token.get("confidence")
PairConfidence(token) ==
    IF token.confidence.k = "some" THEN Mean(token.confidence.v, 1) ELSE NoMean

\* lines 82-106 with source_language set for both roles
PairSegment_SourceAlways(text, token, role) ==
    Segment(text, normalize_language_code(token.language),
            PairConfidence(token), TRUE, PairTimestamp(token), role,
            token.source_language, FALSE)

\* lines 82-89 and 98-106
PairSegment(text, token, role) ==
    Segment(text, normalize_language_code(token.language),
            PairConfidence(token), TRUE, PairTimestamp(token), role,
            IF role = "translation" THEN token.source_language ELSE "absent",
            FALSE)

\* a Pairing Engine that does not test is_final
PairRole_AnyToken(token) ==
    IF token.text = <<>> THEN "skip"
    ELSE IF token.translation_status \in {"original", "translation"}
    THEN token.translation_status
    ELSE "skip"

\* the role whose buffer a token is appended to, "skip" when none is
PairRole(token) ==
    IF token.text = <<>> THEN "skip"
    ELSE IF token.translation_status = "original" /\ token.is_final
    THEN "original"
    ELSE IF token.translation_status = "translation" /\ token.is_final
    THEN "translation"
    ELSE "skip"

\* a Pairing Engine whose flush clears both buffers
RECURSIVE process_translation_tokens_ClearAll(_, _, _, _)
process_translation_tokens_ClearAll(tokens, original, translation, results) ==
    IF tokens = <<>>
    THEN [original_buffer |-> original, translation_buffer |-> translation,
          results |-> results, raised |-> FALSE]
    ELSE
      LET token == Head(tokens)
          role == PairRole(token)
          appended == IF role = "original" THEN Append(original, token.text)
                      ELSE Append(translation, token.text)
          text == join(appended)
      IN  IF role = "skip"
          THEN process_translation_tokens_ClearAll(
                  Tail(tokens), original, translation, results)
          ELSE IF ~PairShouldFlush(text)
          THEN process_translation_tokens_ClearAll(Tail(tokens),
                  IF role = "original" THEN appended ELSE original,
                  IF role = "translation" THEN appended ELSE translation,
                  results)
          ELSE IF TimestampRaises(token)
          THEN [original_buffer |->
                    IF role = "original" THEN appended ELSE original,
                translation_buffer |->
                    IF role = "translation" THEN appended ELSE translation,
                results |-> <<>>, raised |-> TRUE]
          ELSE process_translation_tokens_ClearAll(
                  Tail(tokens), <<>>, <<>>,
                  Append(results, PairSegment(text, token, role)))

\* The loop of lines 69-107 over the rest of a batch.  Both buffers are
\* lists mutated in place, so what was appended or cleared before an
\* exception stays; the results of a batch that raises are never returned.
RECURSIVE process_translation_tokens(_, _, _, _)
process_translation_tokens(tokens, original, translation, results) ==
    IF tokens = <<>>
    THEN [original_buffer |-> original, translation_buffer |-> translation,
          results |-> results, raised |-> FALSE]
    ELSE
      LET token == Head(tokens)
          role == PairRole(token)
          appended == IF role = "original" THEN Append(original, token.text)
                      ELSE Append(translation, token.text)
          text == join(appended)
      IN  IF role = "skip"
          THEN process_translation_tokens(Tail(tokens), original, translation,
                                          results)
          ELSE IF ~PairShouldFlush(text)
          THEN process_translation_tokens(Tail(tokens),
                  IF role = "original" THEN appended ELSE original,
                  IF role = "translation" THEN appended ELSE translation,
                  results)
          ELSE IF TimestampRaises(token)
          THEN [original_buffer |->
                    IF role = "original" THEN appended ELSE original,
                translation_buffer |->
                    IF role = "translation" THEN appended ELSE translation,
                results |-> <<>>, raised |-> TRUE]
          ELSE process_translation_tokens(Tail(tokens),
                  IF role = "original" THEN <<>> ELSE original,
                  IF role = "translation" THEN <<>> ELSE translation,
                  Append(results, PairSegment(text, token, role)))

----------------------------------------------------------------------------
(* File replay: the non-continuous branch, lines 255-264 *)

AllFinal(tokens) == \A i \in 1..Len(tokens) : tokens[i].is_final

ProcessFile(tokens) ==
    LET text == join(TextsOf(tokens))
    IN  IF text = <<>> \/ SumRaises(tokens) \/ TimestampRaises(tokens[1])
        THEN <<>>
        ELSE <<Segment(text, tokens[1].language,
                       Mean(ConfidenceSum(tokens), Len(tokens)),
                       AllFinal(tokens), Timestamp(tokens[1]),
                       "absent", "absent", FALSE)>>

\* lines 151-158: data.get("error") or data.get("error_message", "Unknown error")
ErrorText(m) ==
    IF m.has_error /\ m.error # "None" /\ m.error # ""
    THEN m.error
    ELSE IF m.error_message = "absent" THEN "Unknown error"
    ELSE m.error_message

ErrorSegment(m) ==
    Segment(<<"[Soniox error: ", ErrorText(m), "]">>, "None", NoMean, TRUE,
            NoneVal, "absent", "absent", FALSE)

IsErrorSegment(seg) == seg.text # <<>> /\ seg.text[1] = "[Soniox error: "

----------------------------------------------------------------------------
(* Output: SonioxTranscribe._output_result *)

NoId == 0

\* an id generator that repeats itself
uuid4_Repeating(calls) == 1

\* the value of the n-th call of uuid.uuid4(): one no earlier call returned
uuid4(calls) == calls + 1

\* lines 236-237: a direction is printed when both languages are truthy
Direction(role, source, language) ==
    IF role = "translation" /\ source \notin {"None", "absent", ""}
                            /\ language \notin {"None", ""}
    THEN [from |-> source, to |-> language]
    ELSE [from |-> "absent", to |-> "absent"]

Output(fmt, text, language, confidence, message_id, role, source) ==
    [format |-> fmt, text |-> text, language |-> language,
     confidence |-> confidence, message_id |-> message_id, role |-> role,
     source_language |-> source,
     direction |-> Direction(role, source, language)]

\* lines 207-220 when a translation that finds no stored id gets a fresh one
MessageId_MintWhenAbsent(status, current, calls) ==
    IF status = "translation" /\ current # NoId THEN current
    ELSE uuid4(calls)

\* lines 207-220: the id a final result is printed with
MessageId(status, current, calls) ==
    IF status = "translation" THEN current ELSE uuid4(calls)

\* lines 211-214 when only the first original Segment sets the current id
NextCurrentId_KeepFirst(status, current, calls) ==
    IF status = "original" /\ current = NoId THEN uuid4(calls) ELSE current

\* lines 211-214: the id remembered after a final result was printed
NextCurrentId(status, current, calls) ==
    IF status = "original" THEN uuid4(calls) ELSE current

\* lines 201-240 for one result
JsonOutput(result, current, calls) ==
    Output("json", result.text, result.language, result.confidence,
           MessageId(result.translation_status, current, calls),
           IF result.translation_status \in {"original", "translation"}
           THEN result.translation_status ELSE "absent",
           IF result.translation_status = "translation"
           THEN result.source_language ELSE "absent")

\* _output_result over the results of one message, in the order yielded
RECURSIVE output_results(_, _, _, _, _)
output_results(fmt, results, current, calls, written) ==
    IF results = <<>>
    THEN [current_message_id |-> current, uuid_calls |-> calls,
          printed |-> written]
    ELSE
      LET result == Head(results)
          rest == Tail(results)
      IN  IF fmt = "json" /\ result.is_final
          THEN output_results(fmt, rest,
                  NextCurrentId(result.translation_status, current, calls),
                  IF result.translation_status = "translation"
                  THEN calls ELSE calls + 1,
                  Append(written, JsonOutput(result, current, calls)))
          ELSE IF fmt = "text" /\ result.is_final /\ strip(result.text) # <<>>
          THEN output_results(fmt, rest, current, calls,
                  Append(written,
                         Output("text", strip(result.text), "absent", NoMean,
                                NoId, "absent", "absent")))
          ELSE IF fmt = "csv" /\ result.is_final
          THEN output_results(fmt, rest, current, calls,
                  Append(written,
                         Output("csv", result.text, result.language,
                                result.confidence, NoId, "absent", "absent")))
          ELSE output_results(fmt, rest, current, calls, written)

----------------------------------------------------------------------------
(* What the backend sends *)

tHello == Tok(<<"H", "e", "l", "l", "o">>, TRUE, "en", Some(80), Some(0),
              "none", "None")
tWorld == Tok(<<" ", "w", "o", "r", "l", "d", ".">>, TRUE, "en", Some(90),
              Some(400), "none", "None")
tSemi == Tok(<<"o", "k", ";", " ">>, TRUE, "bs", Absent, Absent,
             "none", "None")
pHe == Tok(<<"H", "e">>, FALSE, "en", Some(50), Some(0), "none", "None")
\* a final token whose confidence is JSON null
tNull == Tok(<<"u", "m">>, TRUE, "en", Null, Some(800), "none", "None")

oHi == Tok(<<"H", "i", ".">>, TRUE, "en", Some(90), Some(600),
           "original", "None")
oSo == Tok(<<"S", "o", " ">>, TRUE, "en", Some(70), Some(200),
           "original", "None")
xBok == Tok(<<"B", "o", "k", ".">>, TRUE, "hr", Some(85), Absent,
            "translation", "en")
xDa == Tok(<<"d", "a", ",", " ">>, TRUE, "bs", Absent, Absent,
           "translation", "en")
\* a final token whose start_ms is JSON null
oNull == Tok(<<"N", "o", ".">>, TRUE, "en", Some(60), Null,
             "original", "None")

PlainTokens == {tHello, tWorld, tSemi, pHe, tNull}
PairTokens == {oHi, oSo, xBok, xDa, oNull}

ErrorMsgs ==
    {ErrorMsg(TRUE, "quota exceeded", FALSE, "absent"),
     ErrorMsg(FALSE, "None", TRUE, "bad audio"),
     ErrorMsg(FALSE, "None", TRUE, "absent")}

RECURSIVE SeqsOfLen(_, _)
SeqsOfLen(S, n) ==
    IF n = 0 THEN {<<>>}
    ELSE {Append(s, x) : s \in SeqsOfLen(S, n - 1), x \in S}

\* the token arrays of at most n tokens a session of the given mode is sent
Batches(translating, n) ==
    UNION {SeqsOfLen(IF translating THEN PairTokens ELSE PlainTokens, k) :
           k \in 0..n}

\* one final token per batch, alone or with a partial token
DripBatches == {<<tHello>>, <<tHello, pHe>>}
\* one final token and one partial token per batch; some confidences are null
NullDripBatches == {<<tHello, pHe>>, <<tNull, pHe>>}

Cost(tokens) == IF tokens = <<>> THEN 1 ELSE Len(tokens)

\* what the backend sends in a run of SpecSession
SessionBatches(translating) ==
    IF translating THEN {<<oHi>>, <<xBok>>} ELSE {<<tHello, pHe>>, <<tWorld>>}
SessionError == ErrorMsg(TRUE, "quota exceeded", FALSE, "absent")

----------------------------------------------------------------------------
(* The session manager: transcribe_stream, _send_audio and the outer       *)
(* handlers of _receive_transcripts                                        *)

\* An exception is named by its class.  "OSError" stands for any exception
\* that is neither a ConnectionClosed nor a CancelledError.

\* websockets.exceptions.ConnectionClosed and its two subclasses
IsConnectionClosed(exc) ==
    exc \in {"ConnectionClosedOK", "ConnectionClosedError"}

\* an `except Exception` that also catches a cancellation
IsException_WithCancelled(exc) == TRUE

\* `except Exception`: asyncio.CancelledError derives from BaseException
IsException(exc) == exc # "CancelledError"

\* what a read or write on a connection that is no longer open raises
ClosedException(conn) ==
    IF conn = "lost" THEN "ConnectionClosedError" ELSE "ConnectionClosedOK"

\* `await websocket.send(...)`: the frame is sent, or the call raises
WriteResults(conn) ==
    IF conn = "open" THEN {"sent", "OSError"} ELSE {ClosedException(conn)}

\* the handlers of _send_audio (lines 121, 132, 135): where the task goes when
\* its body raises
SendAudioExcept(exc) ==
    IF exc = "CancelledError" THEN "cleanup"
    ELSE IF IsConnectionClosed(exc) THEN "done"
    ELSE "failed"

\* the handlers of lines 127-131 without the `except Exception` of line 130
CleanupExcept_ClosedOnly(exc) ==
    IF IsConnectionClosed(exc) THEN "done"
    ELSE IF exc = "CancelledError" THEN "cancelled"
    ELSE "failed"

\* the handlers inside the cancellation path of _send_audio (lines 127-131)
CleanupExcept(exc) ==
    IF IsConnectionClosed(exc) THEN "done"
    ELSE IF IsException(exc) THEN "done"
    ELSE "cancelled"

\* outer handlers that treat a closed connection as any other exception
ReceiveExcept_ClosedIsError(exc) ==
    IF IsException(exc) THEN "RuntimeError" ELSE exc

\* the outer handlers of _receive_transcripts (lines 270-274): the generator
\* returns, or the exception that leaves it
ReceiveExcept(exc) ==
    IF IsConnectionClosed(exc) THEN "return"
    ELSE IF IsException(exc) THEN "RuntimeError"
    ELSE exc

\* Task.cancel() on the task running _send_audio: CancelledError is thrown in
\* where the task is suspended; a finished task is left as it is
Cancel(task) ==
    IF task \in {"sending", "pause"} THEN SendAudioExcept("CancelledError")
    ELSE IF task \in {"cleanup", "cleanup_pause"}
    THEN CleanupExcept("CancelledError")
    ELSE task

\* an `await send_task` that returns only for a cancelled task
Finished_OnlyCancelled(task) == task = "cancelled"

\* `await send_task` (line 86) returns or raises once the task has ended
Finished(task) == task \in {"done", "cancelled", "failed"}

\* leaving `async with websockets.connect(...)` closes the connection
Teardown(conn) == IF conn = "unopened" THEN conn ELSE "closed"

\* lines 91-97: the segment built from an exception
FaultSegment(description) ==
    Segment(<<"[Soniox error: ", description, "]">>, "None", NoMean, TRUE,
            NoneVal, "absent", "absent", FALSE)

\* __main__.main, lines 72-79: a cancelled run ends in KeyboardInterrupt, which
\* is passed over; any other exception is reported and exits with status 1
main(ending) ==
    IF ending \in {"StopAsyncIteration", "CancelledError"} THEN "silent"
    ELSE "Error"

\* Task.cancel() marks the task; CancelledError is thrown into it at its next
\* step, so a task marked for cancellation takes no step of its own
Resumes == caller_cancelled # "pending"

Frame(frame, result, torn_down) ==
    [frame |-> frame, result |-> result, torn_down |-> torn_down]

AudioSent == Len(SelectSeq(outbound, LAMBDA f : f = "audio"))

Formats == {"text", "json", "csv"}

\* SonioxTranscribe.run: microphone (continuous, with or without
\* translation) or file replay (neither)
Modes == {<<TRUE, FALSE>>, <<TRUE, TRUE>>, <<FALSE, FALSE>>}

\* transcribe_file has not returned
NotReturned == [returned |-> FALSE, error |-> FALSE, segments |-> <<>>]

\* the session before websockets.connect is awaited
InitSessionWith(modes, formats) ==
    /\ \E mode \in modes : /\ is_continuous = mode[1]
                           /\ translation_enabled = mode[2]
                           /\ translate = mode[2]
    /\ file_result = NotReturned
    /\ output_format \in formats
    /\ final_buffer = <<>>
    /\ original_buffer = <<>>
    /\ translation_buffer = <<>>
    /\ last_partial = <<>>
    /\ current_message_id = NoId
    /\ uuid_calls = 0
    /\ channel = "open"
    /\ received = <<>>
    /\ emitted = <<>>
    /\ printed = <<>>
    /\ units = 0
    /\ phase = "Connecting"
    /\ transport = "unopened"
    /\ send_task = "none"
    /\ outbound = <<>>
    /\ attempts = <<>>
    /\ cancel_requested = FALSE
    /\ caller_cancelled = "no"
    /\ outcome = "running"
    /\ fault = {}

\* the session once it has connected, sent its configuration and started
\* _send_audio (lines 72-77)
InitWith(modes, formats) ==
    /\ \E mode \in modes : /\ is_continuous = mode[1]
                           /\ translation_enabled = mode[2]
                           /\ translate = mode[2]
    /\ file_result = NotReturned
    /\ output_format \in formats
    /\ final_buffer = <<>>
    /\ original_buffer = <<>>
    /\ translation_buffer = <<>>
    /\ last_partial = <<>>
    /\ current_message_id = NoId
    /\ uuid_calls = 0
    /\ channel = "open"
    /\ received = <<>>
    /\ emitted = <<>>
    /\ printed = <<>>
    /\ units = 0
    /\ phase = "Streaming"
    /\ transport = "open"
    /\ send_task = "sending"
    /\ outbound = <<"config">>
    /\ attempts = <<>>
    /\ cancel_requested = FALSE
    /\ caller_cancelled = "no"
    /\ outcome = "running"
    /\ fault = {}

Init == InitWith(Modes, Formats)

\* `yield` of each result to _run_mic_transcription, which prints it; file
\* replay collects the results instead
Deliver(results) ==
    /\ emitted' = emitted \o results
    /\ IF is_continuous
       THEN LET o == output_results(output_format, results,
                                    current_message_id, uuid_calls, printed)
            IN  /\ current_message_id' = o.current_message_id
                /\ uuid_calls' = o.uuid_calls
                /\ printed' = o.printed
       ELSE UNCHANGED <<current_message_id, uuid_calls, printed>>

\* Lines 90-97: an exception leaves the `async with` block.  The connection
\* is closed on the way out; an Exception becomes one error segment and the
\* generator ends, anything else leaves transcribe_stream.
Raised(exc, description) ==
    /\ transport' = Teardown(transport)
    /\ phase' = "Closed"
    /\ IF IsException(exc)
       THEN /\ Deliver(<<FaultSegment(description)>>)
            /\ outcome' = "StopAsyncIteration"
       ELSE /\ Deliver(<<>>)
            /\ outcome' = exc

\* line 72: the connection is established
Connect ==
    /\ phase = "Connecting"
    /\ Resumes
    /\ phase' = "Configuring"
    /\ transport' = "open"
    /\ UNCHANGED <<translate, file_result, is_continuous,
                   translation_enabled, output_format,
                   final_buffer, original_buffer, translation_buffer,
                   last_partial, current_message_id, uuid_calls, channel,
                   received, emitted, printed, units, send_task, outbound,
                   attempts, cancel_requested, caller_cancelled, outcome,
                   fault>>

\* line 72: websockets.connect raises
ConnectFails ==
    /\ phase = "Connecting"
    /\ Resumes
    /\ Raised("OSError", "connect failed")
    /\ fault' = fault \cup {"connect"}
    /\ UNCHANGED <<translate, file_result, is_continuous,
                   translation_enabled, output_format,
                   final_buffer, original_buffer, translation_buffer,
                   last_partial, channel, received, units, send_task,
                   outbound, attempts, cancel_requested, caller_cancelled>>

\* a session that starts _send_audio without having sent its configuration
Configure_TaskFirst ==
    /\ phase = "Configuring"
    /\ Resumes
    /\ transport = "open"
    /\ send_task' = "sending"
    /\ phase' = "Streaming"
    /\ UNCHANGED <<translate, file_result, is_continuous,
                   translation_enabled, output_format,
                   final_buffer, original_buffer, translation_buffer,
                   last_partial, current_message_id, uuid_calls, channel,
                   received, emitted, printed, units, transport, outbound,
                   attempts, cancel_requested, caller_cancelled, outcome,
                   fault>>

\* lines 74-77: the configuration is sent and _send_audio is started
Configure ==
    /\ phase = "Configuring"
    /\ Resumes
    /\ transport = "open"
    /\ outbound' = Append(outbound, "config")
    /\ send_task' = "sending"
    /\ phase' = "Streaming"
    /\ UNCHANGED <<translate, file_result, is_continuous,
                   translation_enabled, output_format,
                   final_buffer, original_buffer, translation_buffer,
                   last_partial, current_message_id, uuid_calls, channel,
                   received, emitted, printed, units, transport, attempts,
                   cancel_requested, caller_cancelled, outcome, fault>>

\* line 74: sending the configuration raises
ConfigureFails(exc) ==
    /\ phase = "Configuring"
    /\ Resumes
    /\ exc \in WriteResults(transport) \ {"sent"}
    /\ Raised(exc, "configuration not sent")
    /\ fault' = fault \cup {"configure"}
    /\ UNCHANGED <<translate, file_result, is_continuous,
                   translation_enabled, output_format,
                   final_buffer, original_buffer, translation_buffer,
                   last_partial, channel, received, units, send_task,
                   outbound, attempts, cancel_requested, caller_cancelled>>

\* the backend closes the connection ("peer_closed"), or the connection
\* breaks ("lost")
Disconnect(how) ==
    /\ phase \in {"Configuring", "Streaming"}
    /\ transport = "open"
    /\ transport' = how
    /\ UNCHANGED <<translate, file_result, is_continuous,
                   translation_enabled, output_format,
                   final_buffer, original_buffer, translation_buffer,
                   last_partial, current_message_id, uuid_calls, channel,
                   received, emitted, printed, units, phase, send_task,
                   outbound, attempts, cancel_requested, caller_cancelled,
                   outcome, fault>>

\* a session that ends when its first inbound frame cannot be decoded
RecvMalformed_Terminating(limit) ==
    /\ channel = "open"
    /\ phase = "Streaming"
    /\ Resumes
    /\ units + 1 <= limit
    /\ received' = Append(received, MalformedMsg)
    /\ units' = units + 1
    /\ phase' = "Closed"
    /\ UNCHANGED <<translate, file_result, is_continuous,
                   translation_enabled, output_format,
                   final_buffer, original_buffer, translation_buffer,
                   last_partial, current_message_id, uuid_calls, channel,
                   emitted, printed, transport, send_task, outbound,
                   attempts, cancel_requested, caller_cancelled, outcome,
                   fault>>

\* json.loads raises JSONDecodeError: the message is skipped
RecvMalformed(limit) ==
    /\ channel = "open"
    /\ phase = "Streaming"
    /\ Resumes
    /\ units + 1 <= limit
    /\ received' = Append(received, MalformedMsg)
    /\ units' = units + 1
    /\ UNCHANGED <<translate, file_result, is_continuous,
                   translation_enabled, output_format,
                   final_buffer, original_buffer, translation_buffer,
                   last_partial, current_message_id, uuid_calls, channel,
                   emitted, printed>>
    /\ UNCHANGED session

\* lines 150-159: an error message yields one error segment, then `continue`
RecvError(m, limit) ==
    /\ channel = "open"
    /\ phase = "Streaming"
    /\ Resumes
    /\ units + 1 <= limit
    /\ m.has_error \/ m.has_error_code
    /\ received' = Append(received, m)
    /\ units' = units + 1
    /\ Deliver(<<ErrorSegment(m)>>)
    /\ UNCHANGED <<translate, file_result, is_continuous,
                   translation_enabled, output_format,
                   final_buffer, original_buffer, translation_buffer,
                   last_partial, channel>>
    /\ UNCHANGED session

\* lines 162-264: a token batch, routed by the mode of the session
RecvTokens(tokens, cost, limit) ==
    /\ channel = "open"
    /\ phase = "Streaming"
    /\ Resumes
    /\ units + cost <= limit
    /\ received' = Append(received, TokensMsg(tokens))
    /\ units' = units + cost
    /\ IF tokens = <<>>
       THEN /\ Deliver(<<>>)
            /\ UNCHANGED <<final_buffer, original_buffer, translation_buffer,
                           last_partial>>
       ELSE IF is_continuous /\ translation_enabled
       THEN LET r == process_translation_tokens(tokens, original_buffer,
                                                translation_buffer, <<>>)
            IN  /\ original_buffer' = r.original_buffer
                /\ translation_buffer' = r.translation_buffer
                /\ Deliver(r.results)
                /\ UNCHANGED <<final_buffer, last_partial>>
       ELSE IF is_continuous
       THEN LET r == ProcessPlain(tokens, final_buffer, last_partial,
                                  translation_enabled)
            IN  /\ final_buffer' = r.final_buffer
                /\ last_partial' = r.last_partial
                /\ Deliver(r.results)
                /\ UNCHANGED <<original_buffer, translation_buffer>>
       ELSE /\ Deliver(ProcessFile(tokens))
            /\ UNCHANGED <<final_buffer, original_buffer, translation_buffer,
                           last_partial>>
    /\ UNCHANGED <<translate, file_result, is_continuous,
                   translation_enabled, output_format, channel>>
    /\ UNCHANGED session

\* The backend closes the connection, or the connection breaks, and `async
\* for message in websocket` ends.  _receive_transcripts returns (lines
\* 270-271) and transcribe_stream cancels the send task (line 84); an
\* exception that left _receive_transcripts would leave the `async with`
\* block instead.
ConnectionClosed(how) ==
    /\ channel = "open"
    /\ phase = "Streaming"
    /\ Resumes
    /\ transport \in {"open", how}
    /\ channel' = "closed"
    /\ fault' = IF how = "lost" THEN fault \cup {"disconnect"} ELSE fault
    /\ LET left == ReceiveExcept(ClosedException(how))
       IN  IF left = "return"
           THEN /\ transport' = how
                /\ phase' = "Finalizing"
                /\ send_task' = Cancel(send_task)
                /\ cancel_requested' = TRUE
                /\ Deliver(<<>>)
                /\ UNCHANGED outcome
           ELSE /\ Raised(left, "Error receiving transcripts")
                /\ UNCHANGED <<send_task, cancel_requested>>
    /\ UNCHANGED <<translate, file_result, is_continuous,
                   translation_enabled, output_format,
                   final_buffer, original_buffer, translation_buffer,
                   last_partial, received, units, outbound, attempts,
                   caller_cancelled>>

\* reading the next message raises something other than ConnectionClosed:
\* lines 272-274 raise RuntimeError, which leaves the `async with` block
\* before line 84 is reached
RecvFails ==
    /\ channel = "open"
    /\ phase = "Streaming"
    /\ Resumes
    /\ Raised(ReceiveExcept("OSError"), "Error receiving transcripts")
    /\ fault' = fault \cup {"receive"}
    /\ UNCHANGED <<translate, file_result, is_continuous,
                   translation_enabled, output_format,
                   final_buffer, original_buffer, translation_buffer,
                   last_partial, channel, received, units, send_task,
                   outbound, attempts, cancel_requested, caller_cancelled>>

\* lines 85-88: the send task has ended.  Its CancelledError is passed over,
\* its RuntimeError leaves the `async with` block.
AwaitSendTask ==
    /\ phase = "Finalizing"
    /\ Resumes
    /\ Finished(send_task)
    /\ IF send_task = "failed"
       THEN Raised("RuntimeError", "Error sending audio")
       ELSE /\ transport' = Teardown(transport)
            /\ phase' = "Closed"
            /\ outcome' = "StopAsyncIteration"
            /\ Deliver(<<>>)
    /\ UNCHANGED <<translate, file_result, is_continuous,
                   translation_enabled, output_format,
                   final_buffer, original_buffer, translation_buffer,
                   last_partial, channel, received, units, send_task,
                   outbound, attempts, cancel_requested, caller_cancelled,
                   fault>>

\* The task that consumes transcribe_stream is cancelled: Ctrl+C under
\* asyncio.run (__main__.py line 73) cancels the main task.
CallerCancels ==
    /\ phase \in {"Connecting", "Configuring", "Streaming", "Finalizing"}
    /\ caller_cancelled = "no"
    /\ caller_cancelled' = "pending"
    /\ UNCHANGED <<translate, file_result, is_continuous,
                   translation_enabled, output_format,
                   final_buffer, original_buffer, translation_buffer,
                   last_partial, current_message_id, uuid_calls, channel,
                   received, emitted, printed, units, phase, transport,
                   send_task, outbound, attempts, cancel_requested, outcome,
                   fault>>

\* Ctrl+C under an asyncio.run that lets KeyboardInterrupt end the event
\* loop (Python before 3.11): every task is then cancelled at once, the send
\* task with the main task.
Interrupted ==
    /\ phase \in {"Connecting", "Configuring", "Streaming", "Finalizing"}
    /\ caller_cancelled = "no"
    /\ caller_cancelled' = "pending"
    /\ send_task' = Cancel(send_task)
    /\ cancel_requested' = (cancel_requested \/ send_task # "none")
    /\ UNCHANGED <<translate, file_result, is_continuous,
                   translation_enabled, output_format,
                   final_buffer, original_buffer, translation_buffer,
                   last_partial, current_message_id, uuid_calls, channel,
                   received, emitted, printed, units, phase, transport,
                   outbound, attempts, outcome, fault>>

\* CancelledError is thrown in where the generator is suspended.  At `await
\* send_task` it reaches the send task as well and is caught by line 87;
\* elsewhere nothing catches it and it leaves the `async with` block without
\* line 84 being run.
CancelDelivered ==
    /\ caller_cancelled = "pending"
    /\ caller_cancelled' = "thrown"
    /\ IF phase = "Finalizing"
       THEN /\ send_task' = Cancel(send_task)
            /\ Deliver(<<>>)
            /\ UNCHANGED <<phase, transport, outcome>>
       ELSE /\ Raised(IF phase = "Streaming"
                      THEN ReceiveExcept("CancelledError")
                      ELSE "CancelledError", "cancelled")
            /\ UNCHANGED send_task
    /\ UNCHANGED <<translate, file_result, is_continuous,
                   translation_enabled, output_format,
                   final_buffer, original_buffer, translation_buffer,
                   last_partial, channel, received, units, outbound,
                   attempts, cancel_requested, fault>>

\* __main__.py line 73: when the main coroutine has ended, asyncio.run
\* cancels the tasks that are still running
CancelAllTasks ==
    /\ phase = "Closed"
    /\ send_task \in {"sending", "pause"}
    /\ send_task' = Cancel(send_task)
    /\ cancel_requested' = TRUE
    /\ UNCHANGED <<translate, file_result, is_continuous,
                   translation_enabled, output_format,
                   final_buffer, original_buffer, translation_buffer,
                   last_partial, current_message_id, uuid_calls, channel,
                   received, emitted, printed, units, phase, transport,
                   outbound, attempts, caller_cancelled, outcome, fault>>

\* lines 103-105: one chunk is read from the audio source and written
SendChunk(result) ==
    /\ send_task = "sending"
    /\ AudioSent < MaxChunks
    /\ result \in WriteResults(transport)
    /\ IF result = "sent"
       THEN /\ outbound' = Append(outbound, "audio")
            /\ UNCHANGED <<send_task, fault>>
       ELSE /\ send_task' = SendAudioExcept(result)
            /\ fault' = fault \cup {"send"}
            /\ UNCHANGED outbound
    /\ UNCHANGED <<translate, file_result, is_continuous,
                   translation_enabled, output_format,
                   final_buffer, original_buffer, translation_buffer,
                   last_partial, current_message_id, uuid_calls, channel,
                   received, emitted, printed, units, phase, transport,
                   attempts, cancel_requested, caller_cancelled, outcome>>

\* a send task that ends the stream without a finalize message
SourceExhausted_SkippingFinalize(result) ==
    /\ send_task = "sending"
    /\ ~is_continuous
    /\ result \in WriteResults(transport)
    /\ IF result = "sent"
       THEN /\ outbound' = Append(outbound, "terminator")
            /\ send_task' = "done"
            /\ UNCHANGED fault
       ELSE /\ send_task' = SendAudioExcept(result)
            /\ fault' = fault \cup {"send"}
            /\ UNCHANGED outbound
    /\ UNCHANGED <<translate, file_result, is_continuous,
                   translation_enabled, output_format,
                   final_buffer, original_buffer, translation_buffer,
                   last_partial, current_message_id, uuid_calls, channel,
                   received, emitted, printed, units, phase, transport,
                   attempts, cancel_requested, caller_cancelled, outcome>>

\* lines 113-115: the audio of a file is exhausted and the finalize message
\* is written; the microphone generator never ends
SourceExhausted(result) ==
    /\ send_task = "sending"
    /\ ~is_continuous
    /\ result \in WriteResults(transport)
    /\ IF result = "sent"
       THEN /\ outbound' = Append(outbound, "finalize")
            /\ send_task' = "pause"
            /\ UNCHANGED fault
       ELSE /\ send_task' = SendAudioExcept(result)
            /\ fault' = fault \cup {"send"}
            /\ UNCHANGED outbound
    /\ UNCHANGED <<translate, file_result, is_continuous,
                   translation_enabled, output_format,
                   final_buffer, original_buffer, translation_buffer,
                   last_partial, current_message_id, uuid_calls, channel,
                   received, emitted, printed, units, phase, transport,
                   attempts, cancel_requested, caller_cancelled, outcome>>

\* lines 117-119: the pause is over and the empty terminator is written
PauseEnds(result) ==
    /\ send_task = "pause"
    /\ result \in WriteResults(transport)
    /\ IF result = "sent"
       THEN /\ outbound' = Append(outbound, "terminator")
            /\ send_task' = "done"
            /\ UNCHANGED fault
       ELSE /\ send_task' = SendAudioExcept(result)
            /\ fault' = fault \cup {"send"}
            /\ UNCHANGED outbound
    /\ UNCHANGED <<translate, file_result, is_continuous,
                   translation_enabled, output_format,
                   final_buffer, original_buffer, translation_buffer,
                   last_partial, current_message_id, uuid_calls, channel,
                   received, emitted, printed, units, phase, transport,
                   attempts, cancel_requested, caller_cancelled, outcome>>

\* a cleanup that also discards what the session has buffered
CleanupFinalize_DiscardingBuffers(result) ==
    /\ send_task = "cleanup"
    /\ result \in WriteResults(transport)
    /\ attempts' = Append(attempts,
                          Frame("finalize", result, transport = "closed"))
    /\ IF result = "sent"
       THEN /\ outbound' = Append(outbound, "finalize")
            /\ send_task' = "cleanup_pause"
       ELSE /\ send_task' = CleanupExcept(result)
            /\ UNCHANGED outbound
    /\ final_buffer' = <<>>
    /\ original_buffer' = <<>>
    /\ translation_buffer' = <<>>
    /\ last_partial' = <<>>
    /\ UNCHANGED <<translate, file_result, is_continuous,
                   translation_enabled, output_format, current_message_id,
                   uuid_calls, channel, received, emitted, printed, units,
                   phase, transport, cancel_requested, caller_cancelled,
                   outcome, fault>>

\* lines 123-125: the cancelled task tries to write the finalize message
CleanupFinalize(result) ==
    /\ send_task = "cleanup"
    /\ result \in WriteResults(transport)
    /\ attempts' = Append(attempts,
                          Frame("finalize", result, transport = "closed"))
    /\ IF result = "sent"
       THEN /\ outbound' = Append(outbound, "finalize")
            /\ send_task' = "cleanup_pause"
       ELSE /\ send_task' = CleanupExcept(result)
            /\ UNCHANGED outbound
    /\ UNCHANGED <<translate, file_result, is_continuous,
                   translation_enabled, output_format,
                   final_buffer, original_buffer, translation_buffer,
                   last_partial, current_message_id, uuid_calls, channel,
                   received, emitted, printed, units, phase, transport,
                   cancel_requested, caller_cancelled, outcome, fault>>

\* lines 125-126: after its pause the cancelled task tries to write the
\* empty terminator
CleanupTerminator(result) ==
    /\ send_task = "cleanup_pause"
    /\ result \in WriteResults(transport)
    /\ attempts' = Append(attempts,
                          Frame("terminator", result, transport = "closed"))
    /\ IF result = "sent"
       THEN /\ outbound' = Append(outbound, "terminator")
            /\ send_task' = "done"
       ELSE /\ send_task' = CleanupExcept(result)
            /\ UNCHANGED outbound
    /\ UNCHANGED <<translate, file_result, is_continuous,
                   translation_enabled, output_format,
                   final_buffer, original_buffer, translation_buffer,
                   last_partial, current_message_id, uuid_calls, channel,
                   received, emitted, printed, units, phase, transport,
                   cancel_requested, caller_cancelled, outcome, fault>>

Next ==
    \/ RecvMalformed(MaxTokens)
    \/ \E m \in ErrorMsgs : RecvError(m, MaxTokens)
    \/ \E tokens \in Batches(translation_enabled, MaxTokens - units) :
           RecvTokens(tokens, Cost(tokens), MaxTokens)
    \/ ConnectionClosed("peer_closed")

Spec == Init /\ [][Next]_vars

\* a microphone session with translation whose results are printed as JSON
InitPair == InitWith({<<TRUE, TRUE>>}, {"json"})

NextPair ==
    \/ RecvMalformed(MaxPairTokens)
    \/ \E m \in ErrorMsgs : RecvError(m, MaxPairTokens)
    \/ \E tokens \in Batches(TRUE, MaxPairTokens - units) :
           RecvTokens(tokens, Cost(tokens), MaxPairTokens)
    \/ ConnectionClosed("peer_closed")

SpecPair == InitPair /\ [][NextPair]_vars

\* a long microphone session without translation, fed one final token a batch
InitCap == InitWith({<<TRUE, FALSE>>}, {"json"})

NextCap ==
    \/ \E tokens \in DripBatches : RecvTokens(tokens, 1, MaxDrip)
    \/ ConnectionClosed("peer_closed")

SpecCap == InitCap /\ [][NextCap]_vars

\* the same session when the backend sends null confidences
NextCapNull ==
    \/ \E tokens \in NullDripBatches : RecvTokens(tokens, 1, MaxDrip)
    \/ ConnectionClosed("peer_closed")

SpecCapNull == InitCap /\ [][NextCapNull]_vars

\* A whole session, from websockets.connect to the end of asyncio.run.
InitSession == InitSessionWith(Modes, {"json"})

\* what the session itself does
SessionStep ==
    \/ Connect
    \/ Configure
    \/ AwaitSendTask
    \/ CancelDelivered
    \/ CancelAllTasks

\* what the task running _send_audio does
OutboundStep ==
    \/ \E result \in WriteResults(transport) : SendChunk(result)
    \/ \E result \in WriteResults(transport) : SourceExhausted(result)
    \/ \E result \in WriteResults(transport) : PauseEnds(result)
    \/ \E result \in WriteResults(transport) : CleanupFinalize(result)
    \/ \E result \in WriteResults(transport) : CleanupTerminator(result)

\* what the backend, the network and the caller do
Environment ==
    \/ ConnectFails
    \/ \E exc \in WriteResults(transport) : ConfigureFails(exc)
    \/ \E how \in {"peer_closed", "lost"} : Disconnect(how)
    \/ RecvMalformed(MaxInbound)
    \/ RecvError(SessionError, MaxInbound)
    \/ \E tokens \in SessionBatches(translation_enabled) :
           RecvTokens(tokens, 1, MaxInbound)
    \/ \E how \in {"peer_closed", "lost"} : ConnectionClosed(how)
    \/ RecvFails
    \/ CallerCancels
    \/ Interrupted

NextSession == SessionStep \/ OutboundStep \/ Environment

SpecSession == InitSession /\ [][NextSession]_vars

\* The event loop runs every task that is ready: a step of the session or of
\* the send task that stays possible is eventually taken.
SpecSessionFair ==
    /\ InitSession
    /\ [][NextSession]_vars
    /\ WF_vars(SessionStep)
    /\ WF_vars(OutboundStep)

----------------------------------------------------------------------------
(* Vocabulary of the properties *)

PlainMic == is_continuous /\ ~translation_enabled
PairMic == is_continuous /\ translation_enabled

\* a step that handles one inbound message
Handles == Len(received') = Len(received) + 1
\* the message such a step handles, and what the step yields
Handled == received'[Len(received')]
Yielded == SubSeq(emitted', Len(emitted) + 1, Len(emitted'))

IsFinalSegment(seg) == seg.is_final /\ ~IsErrorSegment(seg)
IsErrorMsg(m) == m.kind = "json" /\ (m.has_error \/ m.has_error_code)

\* flush conditions (a), (b), (c) of the Token Segmenter
CondA(buffer) ==
    LET text == rstrip(join(TextsOf(buffer)))
    IN  text # <<>> /\ text[Len(text)] \in {".", "!", "?", ":", ";"}
CondB(buffer) == Len(buffer) > 10
CondC(tokens) ==
    /\ tokens[Len(tokens)].is_final
    /\ \A i \in 1..Len(tokens) : tokens[i].is_final

----------------------------------------------------------------------------
(* C1 *)

\* C1: a backend-reported error yields exactly one error Segment, final and
\* carrying the error description, and ends the session: the error Segment is
\* the last Segment, nothing is emitted for a message that arrives after it.
C1_ErrorSegmentIsLast ==
    /\ \A i \in 1..Len(emitted) :
           IsErrorSegment(emitted[i]) => i = Len(emitted) /\ emitted[i].is_final
    /\ (\E i \in 1..Len(received) : IsErrorMsg(received[i]))
           => emitted # <<>> /\ IsErrorSegment(emitted[Len(emitted)])

\* the error Segment of scenario D is reached
C1_ErrorSegmentEmitted ==
    /\ received = <<ErrorMsg(FALSE, "None", TRUE, "bad audio")>>
    /\ Len(emitted) = 1
    /\ emitted[1].text[2] = "bad audio"
    /\ emitted[1].is_final

----------------------------------------------------------------------------
(* C2 *)

\* C2: in a continuous session without translation, a step that handles a
\* token batch emits a final Segment only if, on the buffer extended by the
\* batch's final tokens, (a) the right-trimmed text ends in one of . ! ? : ;
\* or (b) the buffer holds more than 10 tokens, or (c) the batch's last token
\* is final and the batch holds no partial token.
C2_FinalOnlyOnFlushCondition ==
    [][(PlainMic /\ Handles) =>
          LET tokens == Handled.tokens
              extended == final_buffer \o SelectSeq(tokens, IsFinal)
          IN  (\E i \in 1..Len(Yielded) : IsFinalSegment(Yielded[i]))
                  => /\ tokens # <<>>
                     /\ CondA(extended) \/ CondB(extended) \/ CondC(tokens)
      ]_vars

\* a batch with a partial token flushes on punctuation alone
C2_FlushedOnPunctuation ==
    /\ PlainMic
    /\ received = <<TokensMsg(<<tWorld, pHe>>)>>
    /\ Len(emitted) = 2
    /\ IsFinalSegment(emitted[1])
    /\ final_buffer = <<>>

----------------------------------------------------------------------------
(* C3 *)

TextsOfRole(tokens, role) ==
    LET HasRole(t) == PairRole(t) = role
    IN  join(TextsOf(SelectSeq(tokens, HasRole)))

SegmentTextsOfRole(segments, role) ==
    LET HasRole(seg) == IsFinalSegment(seg) /\ seg.translation_status = role
    IN  join(TextsOf(SelectSeq(segments, HasRole)))

\* C3: in a continuous session no buffered final token is dropped, duplicated
\* or reordered between Segments: in every step, what a buffer held followed
\* by the final tokens appended to it equals the texts of the final Segments
\* flushed from it followed by what the buffer holds afterwards.
C3_BufferedTokensReachSegments ==
    [][(is_continuous /\ Handles /\ ~IsErrorMsg(Handled)) =>
          IF translation_enabled
          THEN /\ join(original_buffer)
                      \o TextsOfRole(Handled.tokens, "original")
                  = SegmentTextsOfRole(Yielded, "original")
                      \o join(original_buffer')
               /\ join(translation_buffer)
                      \o TextsOfRole(Handled.tokens, "translation")
                  = SegmentTextsOfRole(Yielded, "translation")
                      \o join(translation_buffer')
          ELSE join(TextsOf(final_buffer))
                      \o join(TextsOf(SelectSeq(Handled.tokens, IsFinal)))
                  = SegmentTextsOfRole(Yielded, "absent")
                      \o join(TextsOf(final_buffer'))
      ]_vars

----------------------------------------------------------------------------
(* C4 *)

\* C4: the Segmenter's buffer never holds more than 10 tokens after a batch
\* has been handled: an append that leaves more than 10 tokens flushes and
\* clears the buffer in the same step.
C4_BufferWithinCap == PlainMic => Len(final_buffer) <= MaxBufferedTokens

----------------------------------------------------------------------------
(* C5 - C8: correlation ids *)

Originals == {i \in 1..Len(printed) : printed[i].role = "original"}
Translations == {i \in 1..Len(printed) : printed[i].role = "translation"}
Latest(indices) == CHOOSE i \in indices : \A j \in indices : j <= i

\* C5: a translation Segment printed right after an original Segment carries
\* the id minted for that original Segment, and the id of no other original
\* Segment, earlier or later.
C5_TranslationCarriesPrecedingId ==
    \A i \in Translations :
        (i - 1) \in Originals =>
            /\ printed[i].message_id = printed[i - 1].message_id
            /\ \A j \in Originals \ {i - 1} :
                   printed[j].message_id # printed[i].message_id

\* original, translation, original, translation were printed
C5_Alternated ==
    /\ Len(printed) = 4
    /\ Originals = {1, 3}
    /\ Translations = {2, 4}
    /\ printed[2].message_id # printed[4].message_id

\* C6: correlation ids pair Segments one-to-one: every minted id a Segment
\* carries is carried by exactly one original Segment and at most one
\* translation Segment.
C6_IdsPairOneToOne ==
    \A i \in Originals \cup Translations :
        LET Same(indices) ==
                {j \in indices : printed[j].message_id = printed[i].message_id}
        IN  printed[i].message_id # NoId
                => /\ Cardinality(Same(Originals)) = 1
                   /\ Cardinality(Same(Translations)) <= 1

\* C7: every original Segment is printed with an id that no earlier record of
\* the run carries, and that id is the current one from then on, until the
\* next original Segment replaces it, used by a translation Segment or not.
C7_OriginalMintsCurrentId ==
    /\ \A i \in Originals :
           /\ printed[i].message_id # NoId
           /\ \A j \in 1..(i - 1) :
                  printed[j].message_id # printed[i].message_id
    /\ current_message_id =
           IF Originals = {} THEN NoId
           ELSE printed[Latest(Originals)].message_id

\* two original Segments in a row: the first id was never used
C7_UnusedIdOverwritten ==
    /\ Len(printed) = 2
    /\ Originals = {1, 2}
    /\ current_message_id = printed[2].message_id
    /\ current_message_id # printed[1].message_id

WellFormed(token) ==
    token.confidence.k # "null" /\ token.start_ms.k # "null"

EndsInFlushPunctuation(token) == endswith(token.text, PairEndings)

ScenarioCOriginals ==
    {t \in PairTokens : /\ PairRole(t) = "original"
                        /\ EndsInFlushPunctuation(t) /\ WellFormed(t)}
ScenarioCTranslations ==
    {t \in PairTokens : /\ PairRole(t) = "translation"
                        /\ EndsInFlushPunctuation(t) /\ WellFormed(t)}

----------------------------------------------------------------------------
(* C9, C10: scenarios of the Token Segmenter *)

HelloWorld == <<"H", "e", "l", "l", "o", " ", "w", "o", "r", "l", "d", ".">>

InOneBatch == <<TokensMsg(<<tHello, tWorld>>)>>
InTwoBatches == <<TokensMsg(<<tHello>>), TokensMsg(<<tWorld>>)>>

\* C9 as stated: "Hello" and " world." yield exactly one Segment,
\* "Hello world.", final, delivered in one batch or in two.
C9_OneSegmentEitherWay ==
    (PlainMic /\ received \in {InOneBatch, InTwoBatches})
    => /\ Len(emitted) = 1
       /\ emitted[1].text = HelloWorld
       /\ emitted[1].is_final

\* C9, amended: delivered in one batch "Hello" and " world." yield exactly
\* one Segment, "Hello world.", final; delivered in two batches without
\* partial tokens they yield two final Segments, "Hello" then " world.".
C9_OneSegmentInOneBatch ==
    PlainMic =>
        /\ received = InOneBatch
               => /\ Len(emitted) = 1
                  /\ emitted[1].text = HelloWorld
                  /\ emitted[1].is_final
        /\ received = InTwoBatches
               => /\ Len(emitted) = 2
                  /\ emitted[1].text = tHello.text /\ emitted[1].is_final
                  /\ emitted[2].text = tWorld.text /\ emitted[2].is_final

\* scenario A was fed in one batch
C9_ScenarioAFed ==
    PlainMic /\ received = InOneBatch /\ Len(emitted) = 1

WithPartial == TokensMsg(<<tHello, pHe>>)
FinalsEmitted == SelectSeq(emitted, IsFinalSegment)

----------------------------------------------------------------------------
(* C11 - C19: the life cycle of a session *)

\* the faults of the transport that the session itself meets
TransportFaults == {"connect", "configure", "disconnect", "receive"}

\* a step in which the session meets a fault of the transport
MeetsFault == \E f \in TransportFaults : f \in fault' /\ f \notin fault

ErrorSegmentsEmitted == SelectSeq(emitted, IsErrorSegment)

\* C11: a transport fault met while connecting, configuring or receiving
\* (an I/O error or an unexpected disconnect) makes the session emit exactly
\* one error Segment, final, and end at once, so that the Segment is the last
\* one emitted; no second connection is opened.
C11_FaultYieldsOneErrorSegment ==
    [][MeetsFault =>
          /\ Len(Yielded) = 1
          /\ IsErrorSegment(Yielded[1])
          /\ Yielded[1].is_final
          /\ phase' = "Closed"
          /\ transport' \in {"unopened", "closed"}]_vars

\* C11: a session whose connection attempt failed has ended with the error
\* Segment as its only output.
C11_ConnectFaultSurfaced ==
    /\ fault = {"connect"}
    /\ phase = "Closed"
    /\ Len(emitted) = 1
    /\ IsErrorSegment(emitted[1])
    /\ emitted[1].is_final

\* the session has ended and the last Segment it emitted is an error Segment
EndedInError ==
    /\ phase = "Closed"
    /\ emitted # <<>>
    /\ IsErrorSegment(emitted[Len(emitted)])

\* C12: a session in which a write of the send task failed, and which was not
\* cancelled, ends in an error the caller can see: it never ends the way a
\* cleanly closed session does.
C12_SendFaultEndsInError ==
    ("send" \in fault /\ caller_cancelled = "no" /\ phase = "Closed")
        => EndedInError

\* C12: a write failed with an error other than a closed connection, and the
\* session ended with the error Segment of the send task.
C12_SendFaultSurfaced ==
    /\ "send" \in fault
    /\ send_task = "failed"
    /\ caller_cancelled = "no"
    /\ EndedInError
    /\ emitted[Len(emitted)].text
           = <<"[Soniox error: ", "Error sending audio", "]">>

\* C13: once the backend has closed the connection, a session whose send
\* task has not failed emits nothing more and ends normally, without an error
\* Segment and without an exception, whether the send task was still sending
\* audio, was in its finalize pause or had finished.
C13_PeerCloseEndsNormally ==
    [][(channel' = "closed" /\ send_task' # "failed") =>
          /\ Yielded = <<>>
          /\ phase' = "Closed" => outcome' = "StopAsyncIteration"]_vars

\* C13: the backend closed the connection while the send task was in its
\* finalize pause (finalize written, terminator not), and the session ended
\* normally with nothing emitted.
C13_ClosedDuringPause ==
    /\ channel = "closed"
    /\ phase = "Closed"
    /\ outcome = "StopAsyncIteration"
    /\ outbound # <<>>
    /\ outbound[Len(outbound)] = "finalize"
    /\ attempts # <<>>
    /\ caller_cancelled = "no"
    /\ emitted = <<>>

----------------------------------------------------------------------------
(* C14 *)

\* C14: a message that cannot be decoded is skipped: handling it emits no
\* Segment, prints nothing, leaves the three buffers and the remembered
\* preview as they were and leaves the session receiving, so that the
\* messages after it are handled as if it had not been received.
C14_MalformedIsSkipped ==
    [][(Handles /\ Handled.kind = "malformed") =>
          /\ Yielded = <<>>
          /\ UNCHANGED <<final_buffer, original_buffer, translation_buffer,
                         last_partial, current_message_id, printed>>
          /\ phase' = "Streaming"
          /\ channel' = "open"]_vars

\* C14: a malformed message arrived between the original tokens "So " and
\* "Hi.", and the two were still emitted as one Segment.
C14_SkippedBetweenTokens ==
    /\ PairMic
    /\ received = <<TokensMsg(<<oSo>>), MalformedMsg, TokensMsg(<<oHi>>)>>
    /\ Len(emitted) = 1
    /\ emitted[1].text = strip(oSo.text \o oHi.text)

----------------------------------------------------------------------------
(* C15, C16: the cancelled send task *)

InCleanup(task) == task \in {"cleanup", "cleanup_pause"}

\* a step in which the cancelled send task tries one of its two writes
TriesWrite == Len(attempts') = Len(attempts) + 1

\* C15: the finalize path of a cancelled send task never raises: whatever a
\* write does, be it on a connection that is already closed, the task goes
\* on or ends without an error, and the session neither emits a Segment nor
\* records a fault for it.
C15_CleanupNeverRaises ==
    [][InCleanup(send_task) =>
          /\ send_task' \in {"cleanup", "cleanup_pause", "done", "cancelled"}
          /\ TriesWrite => (Yielded = <<>> /\ fault' = fault)]_vars

\* C15: the finalize message was written, the terminator was refused by a
\* connection the session had closed meanwhile, and the task ended normally.
C15_TerminatorRefused ==
    /\ attempts = <<Frame("finalize", "sent", FALSE),
                    Frame("terminator", "ConnectionClosedOK", TRUE)>>
    /\ send_task = "done"
    /\ phase = "Closed"

FinalizeAttempts == SelectSeq(attempts, LAMBDA a : a.frame = "finalize")

\* C16: when the caller has cancelled the session, the session closes the
\* connection only after the send task has been cancelled, the send task
\* tries its finalize handshake at most once, and every write of the
\* handshake is tried before the session has closed the connection.
C16_HandshakeBeforeTeardown ==
    caller_cancelled # "no" =>
        /\ transport = "closed" => (send_task = "none" \/ cancel_requested)
        /\ Len(FinalizeAttempts) <= 1
        /\ \A i \in 1..Len(attempts) : ~attempts[i].torn_down

\* C16: the caller cancelled a streaming session; the send task was cancelled
\* only after the session had closed the connection, and its one write was
\* refused.
C16_HandshakeAfterTeardown ==
    /\ caller_cancelled = "thrown"
    /\ outcome = "CancelledError"
    /\ attempts = <<Frame("finalize", "ConnectionClosedOK", TRUE)>>
    /\ send_task = "done"

----------------------------------------------------------------------------
(* C17 *)

\* the step in which CancelledError is thrown into the session
CancellationLands == caller_cancelled = "pending" /\ caller_cancelled' = "thrown"

----------------------------------------------------------------------------
(* C18, C19: the phases of a session *)

Rank(p) ==
    CASE p = "Connecting" -> 1
      [] p = "Configuring" -> 2
      [] p = "Streaming" -> 3
      [] p = "Finalizing" -> 4
      [] p = "Closed" -> 5

ConfigsSent(frames) == Len(SelectSeq(frames, LAMBDA f : f = "config"))

\* C18: a session moves through Connecting, Configuring, Streaming,
\* Finalizing and Closed in that order and never backwards; it sends at most
\* one configuration message, exactly one once it streams; that message is
\* the first frame it writes, and no audio frame is written and no inbound
\* message handled before it.
C18_LinearPhases ==
    [][/\ Rank(phase) <= Rank(phase')
       /\ ConfigsSent(outbound') <= 1
       /\ phase' \in {"Streaming", "Finalizing"} => ConfigsSent(outbound') = 1
       /\ send_task' # "none" => ConfigsSent(outbound') = 1
       /\ outbound' # <<>> => outbound'[1] = "config"
       /\ received' # <<>> => ConfigsSent(outbound') = 1]_vars

\* C18: a file session ran through every phase: configuration, audio,
\* finalize and terminator were written in that order, messages were
\* handled, the backend closed the connection and the session ended.
C18_WholeSession ==
    /\ phase = "Closed"
    /\ outcome = "StopAsyncIteration"
    /\ channel = "closed"
    /\ outbound = <<"config", "audio", "finalize", "terminator">>
    /\ received # <<>>

\* C19: once the inbound channel has closed, the session eventually reaches
\* Closed, whatever the send task was doing when the channel closed: it is
\* cancelled and awaited and the stream of Segments ends.
C19_ClosedChannelEndsSession ==
    (channel = "closed") ~> (phase = "Closed" /\ Finished(send_task))

\* C19: the channel closed on a send task that had already failed, and the
\* session reached Closed.
C19_EndedAfterFailedSend ==
    /\ channel = "closed"
    /\ phase = "Closed"
    /\ send_task = "failed"
    /\ cancel_requested
    /\ attempts = <<>>

----------------------------------------------------------------------------
(* C20 *)

IsPrefix(a, b) == Len(a) <= Len(b) /\ SubSeq(b, 1, Len(a)) = a

\* the tokens of the messages, in the order they arrived
RECURSIVE TokensOf(_)
TokensOf(messages) ==
    IF messages = <<>> THEN <<>>
    ELSE Head(messages).tokens \o TokensOf(Tail(messages))

\* the texts of the final tokens that go into the stream of a role
RoleTexts(messages, role, translating) ==
    LET GoesIn(t) == IF translating THEN PairRole(t) = role ELSE t.is_final
    IN  TextsOf(SelectSeq(TokensOf(messages), GoesIn))

\* text is the concatenation, in order, of some of the texts
RECURSIVE Embeds(_, _)
Embeds(text, texts) ==
    IF text = <<>> THEN TRUE
    ELSE IF texts = <<>> THEN FALSE
    ELSE \/ /\ IsPrefix(Head(texts), text)
            /\ Embeds(SubSeq(text, Len(Head(texts)) + 1, Len(text)),
                      Tail(texts))
         \/ Embeds(text, Tail(texts))

\* C20: Segments reach the caller in the order of the tokens they are made
\* of: for each role, the final Segments emitted so far, read one after the
\* other, spell final tokens of that role in the order they arrived; and in
\* what one batch yields no preview Segment comes before a final Segment.
C20_SegmentsInArrivalOrder ==
    [][(is_continuous /\ Handles) =>
          /\ \A role \in {"original", "translation", "absent"} :
                Embeds(SegmentTextsOfRole(emitted', role),
                       RoleTexts(received', role, translation_enabled))
          /\ \A i, j \in 1..Len(Yielded) :
                (i < j /\ Yielded[j].is_final) => Yielded[i].is_final]_vars

\* C20: "ok; " arrived in a first batch, " world." and the partial "He" in a
\* second one: the two final Segments were emitted in that order, then the
\* preview.
C20_FinalsThenPreview ==
    /\ PlainMic
    /\ received = <<TokensMsg(<<tSemi>>), TokensMsg(<<tWorld, pHe>>)>>
    /\ Len(emitted) = 3
    /\ emitted[1].text = tSemi.text /\ emitted[1].is_final
    /\ emitted[2].text = tWorld.text /\ emitted[2].is_final
    /\ emitted[3].text = pHe.text /\ ~emitted[3].is_final

----------------------------------------------------------------------------
(* Two sessions on one SonioxProvider, and tokens without a                *)
(* translation_status in a translated stream                               *)

\* the markers the backend puts into its token stream: <end>, <fin>, </s>
\* and [END], in the order clean_special_tokens removes them
special_tokens ==
    << <<"<", "e", "n", "d", ">">>, <<"<", "f", "i", "n", ">">>,
       <<"<", "/", "s", ">">>, <<"[", "E", "N", "D", "]">> >>

\* the end-of-utterance marker, sent as a final token of its own
tEnd == Tok(special_tokens[1], TRUE, "None", Some(100), Some(900), "none",
            "None")

\* final tokens of a translated stream, three of them without
\* translation_status
MixedTokens == {tHello, tWorld, tEnd, oHi, xBok}
\* tokens a run of SpecShared or SpecMixed receives
MaxMixed == 3

MixedBatches(n) == UNION {SeqsOfLen(MixedTokens, k) : k \in 0..n}

\* Lines 58-68 of another call of transcribe_stream on the same provider
\* object.  They run without suspension up to the `await` of line 72, and
\* line 68 assigns the attribute _translation_enabled, which the session
\* already streaming reads at line 169 for every message.
transcribe_stream(other_translate) ==
    /\ phase = "Streaming"
    /\ translation_enabled' = other_translate
    /\ UNCHANGED <<translate, file_result, is_continuous, output_format,
                   final_buffer, original_buffer, translation_buffer,
                   last_partial, current_message_id, uuid_calls, channel,
                   received, emitted, printed, units>>
    /\ UNCHANGED session

\* a microphone session, with or without translation, while other calls of
\* transcribe_stream are made on its provider
InitShared == InitWith({<<TRUE, FALSE>>, <<TRUE, TRUE>>}, {"json"})

NextShared ==
    \/ \E other_translate \in BOOLEAN : transcribe_stream(other_translate)
    \/ \E tokens \in MixedBatches(MaxMixed - units) :
           RecvTokens(tokens, Cost(tokens), MaxMixed)
    \/ ConnectionClosed("peer_closed")

SpecShared == InitShared /\ [][NextShared]_vars

\* a microphone session with translation, alone on its provider
InitMixed == InitWith({<<TRUE, TRUE>>}, {"json"})

NextMixed ==
    \/ \E tokens \in MixedBatches(MaxMixed - units) :
           RecvTokens(tokens, Cost(tokens), MaxMixed)
    \/ ConnectionClosed("peer_closed")

SpecMixed == InitMixed /\ [][NextMixed]_vars

\* the results came from the Pairing Engine / from the plain Segmenter
FromPairing(results) ==
    \A i \in 1..Len(results) :
        results[i].translation_status \in {"original", "translation"}
FromSegmenter(results) ==
    \A i \in 1..Len(results) : results[i].translation_status = "absent"

\* C21: the mode of a session is the one selected when it started.  While
\* the session is streaming the mode does not change, also not when another
\* session is started on the same provider, and every token batch is routed
\* to the engine of that mode: a session with translation never writes the
\* Segmenter buffer or the preview and yields only paired Segments, a session
\* without translation never writes a pairing buffer and yields none.
C21_ModeFixedAtStart ==
    [][/\ phase = "Streaming" => translation_enabled' = translate
       /\ (Handles /\ is_continuous /\ Handled.tokens # <<>>) =>
              IF translate
              THEN /\ UNCHANGED <<final_buffer, last_partial>>
                   /\ FromPairing(Yielded)
              ELSE /\ UNCHANGED <<original_buffer, translation_buffer>>
                   /\ FromSegmenter(Yielded)]_vars

\* C21: a session started without translation has yielded an original
\* Segment of the Pairing Engine, after another call set the mode
C21_RoutedToOtherEngine ==
    /\ is_continuous
    /\ ~translate
    /\ translation_enabled
    /\ received = <<TokensMsg(<<tHello>>), TokensMsg(<<oHi>>)>>
    /\ Len(emitted) = 2
    /\ emitted[1].translation_status = "absent"
    /\ emitted[2].translation_status = "original"

\* the final tokens of a batch that have a text and no translation_status
Untagged(tokens) ==
    LET Bypasses(t) == /\ t.is_final
                       /\ t.text # <<>>
                       /\ t.translation_status \in {"absent", "none"}
    IN  SelectSeq(tokens, Bypasses)

\* the plain final Segments among the results
PlainFinalSegments(results) ==
    LET IsPlainFinal(seg) == /\ IsFinalSegment(seg)
                             /\ seg.translation_status = "absent"
    IN  SelectSeq(results, IsPlainFinal)

\* C29: in a session with translation, the final tokens of a batch that have
\* a text and no translation_status go to the plain Segmenter: what the
\* Segmenter buffer held, followed by their texts, is what the plain final
\* Segments of the step carry followed by what the buffer holds afterwards.
C29_UntaggedTokensSegmented ==
    [][(Handles /\ PairMic /\ Untagged(Handled.tokens) # <<>>) =>
           join(TextsOf(final_buffer)) \o join(TextsOf(Untagged(Handled.tokens)))
               = join(TextsOf(PlainFinalSegments(Yielded)))
                     \o join(TextsOf(final_buffer'))]_vars

\* C29: a session with translation has handled "Hello" without a
\* translation_status followed by the original "Hi."; it yielded the
\* original Segment alone and the Segmenter buffer is empty
C29_UntaggedTokenDropped ==
    /\ PairMic
    /\ received = <<TokensMsg(<<tHello, oHi>>)>>
    /\ final_buffer = <<>>
    /\ Len(emitted) = 1
    /\ emitted[1].text = oHi.text
    /\ emitted[1].translation_status = "original"

\* a marker occurs in the text
HasSentinel(text) ==
    \E i \in 1..Len(text), j \in 1..Len(special_tokens) :
        /\ i + Len(special_tokens[j]) - 1 <= Len(text)
        /\ SubSeq(text, i, i + Len(special_tokens[j]) - 1) = special_tokens[j]

\* C22: every final Segment a streaming session emits has a text without
\* sentinel markers and without leading or trailing whitespace.
C22_FinalTextCleanAndTrimmed ==
    \A i \in 1..Len(emitted) :
        (is_continuous /\ IsFinalSegment(emitted[i])) =>
            /\ ~HasSentinel(emitted[i].text)
            /\ strip(emitted[i].text) = emitted[i].text

\* C22: a session without translation was sent "Hello" and the marker <end>
\* in one batch, then " world.", and has emitted two final Segments
C22_MarkerAndBlankKept ==
    /\ PlainMic
    /\ ~translate
    /\ received = <<TokensMsg(<<tHello, tEnd>>), TokensMsg(<<tWorld>>)>>
    /\ Len(emitted) = 2
    /\ emitted[1].is_final
    /\ emitted[1].text = tHello.text \o tEnd.text
    /\ emitted[2].is_final
    /\ emitted[2].text = tWorld.text

----------------------------------------------------------------------------
(* C23, C30: the timestamp and the confidence of a final Segment *)

\* the tokens of a batch the Pairing Engine appends to the buffer of a role
TokensOfRole(tokens, role) ==
    LET HasRole(t) == PairRole(t) = role
    IN  SelectSeq(tokens, HasRole)

\* the final Segments of a role among the results
SegmentsOfRole(results, role) ==
    LET HasRole(seg) == IsFinalSegment(seg) /\ seg.translation_status = role
    IN  SelectSeq(results, HasRole)

PairBuffer(role) ==
    IF role = "original" THEN original_buffer ELSE translation_buffer

\* the tokens whose texts make up the text: the shortest prefix that spells it
Contributors(tokens, text) ==
    LET Spells(k) == join(TextsOf(SubSeq(tokens, 1, k))) = text
        k == CHOOSE k \in 1..Len(tokens) :
                 Spells(k) /\ \A j \in 1..(k - 1) : ~Spells(j)
    IN  SubSeq(tokens, 1, k)

\* C23: the timestamp of a final Segment is that of the first token that
\* contributed to it.  Plain mode: the first token of the buffer extended by
\* the batch's final tokens.  Translation mode: when the buffer of a role is
\* empty before the batch, the first token of that role in the batch, for the
\* first Segment of that role the step yields.
C23_TimestampOfFirstToken ==
    [][(is_continuous /\ Handles /\ ~IsErrorMsg(Handled)) =>
          IF translation_enabled
          THEN \A role \in {"original", "translation"} :
                   LET segs == SegmentsOfRole(Yielded, role)
                       toks == TokensOfRole(Handled.tokens, role)
                   IN  (PairBuffer(role) = <<>> /\ segs # <<>>) =>
                           segs[1].timestamp = PairTimestamp(toks[1])
          ELSE LET segs == SegmentsOfRole(Yielded, "absent")
                   extended == final_buffer \o SelectSeq(Handled.tokens, IsFinal)
               IN  \A i \in 1..Len(segs) :
                       segs[i].timestamp = Timestamp(extended[1])
      ]_vars

\* C23: a session with translation was sent the originals "So " (start_ms
\* 200) and "Hi." (start_ms 600) and has emitted "So Hi." with the timestamp
\* of "Hi."
C23_TimestampOfLastToken ==
    /\ PairMic
    /\ received = <<TokensMsg(<<oSo, oHi>>)>>
    /\ Len(emitted) = 1
    /\ emitted[1].text = oSo.text \o oHi.text
    /\ emitted[1].timestamp = Some(600)

\* the confidence is the fraction num / den
IsMean(confidence, num, den) ==
    /\ confidence.k = "mean"
    /\ confidence.num * den = num * confidence.den

\* C30: the confidence of a final Segment is the arithmetic mean of the
\* confidences of the tokens that contributed to it, an absent confidence
\* counting 0.  Plain mode: the tokens of the buffer extended by the batch's
\* final tokens.  Translation mode: when the buffer of a role is empty before
\* the batch, the tokens of that role up to the first flush, for the first
\* Segment of that role the step yields.
C30_ConfidenceIsMean ==
    [][(is_continuous /\ Handles /\ ~IsErrorMsg(Handled)) =>
          IF translation_enabled
          THEN \A role \in {"original", "translation"} :
                   LET segs == SegmentsOfRole(Yielded, role)
                       toks == TokensOfRole(Handled.tokens, role)
                   IN  (PairBuffer(role) = <<>> /\ segs # <<>>) =>
                           LET used == Contributors(toks, segs[1].text)
                           IN  IsMean(segs[1].confidence,
                                      ConfidenceSum(used), Len(used))
          ELSE LET segs == SegmentsOfRole(Yielded, "absent")
                   extended == final_buffer \o SelectSeq(Handled.tokens, IsFinal)
               IN  \A i \in 1..Len(segs) :
                       IsMean(segs[i].confidence,
                              ConfidenceSum(extended), Len(extended))
      ]_vars

\* C30: a session with translation was sent the originals "So " (confidence
\* 0.70) and "Hi." (confidence 0.90) and has emitted "So Hi." with the
\* confidence 0.90
C30_ConfidenceOfLastToken ==
    /\ PairMic
    /\ received = <<TokensMsg(<<oSo, oHi>>)>>
    /\ Len(emitted) = 1
    /\ emitted[1].text = oSo.text \o oHi.text
    /\ emitted[1].confidence = Mean(90, 1)
    /\ ~IsMean(emitted[1].confidence, 160, 2)

----------------------------------------------------------------------------
(* C24 *)

\* language tags of tokens; "None" is the absent tag
LanguageTags == {"en", "hr", "bs", "sr", "None"}

\* C24: the Language Normalizer is idempotent on every tag, the absent tag
\* included, maps bs to hr and returns every other tag unchanged; the language
\* of every final Segment a continuous session has emitted is a normalized
\* tag and never bs.
C24_NormalizedLanguage ==
    /\ \A x \in LanguageTags :
           /\ normalize_language_code(normalize_language_code(x))
                  = normalize_language_code(x)
           /\ x = "bs" => normalize_language_code(x) = "hr"
           /\ x # "bs" => normalize_language_code(x) = x
    /\ \A i \in 1..Len(emitted) :
           (is_continuous /\ IsFinalSegment(emitted[i])) =>
               /\ emitted[i].language # "bs"
               /\ normalize_language_code(emitted[i].language)
                      = emitted[i].language

\* C24: a session with translation was sent the translation "da, " tagged bs
\* and has emitted it tagged hr
C24_BosnianFolded ==
    /\ PairMic
    /\ received = <<TokensMsg(<<xDa>>)>>
    /\ xDa.language = "bs"
    /\ Len(emitted) = 1
    /\ emitted[1].is_final
    /\ emitted[1].language = "hr"

----------------------------------------------------------------------------
(* C25 *)

HasFinalToken(tokens) == \E i \in 1..Len(tokens) : tokens[i].is_final

\* C25: a message that carries no final token (no tokens at all, or partial
\* tokens only) never makes the session emit a final Segment, whatever the
\* buffers hold and in every mode; so no final Segment is built from zero
\* tokens.
C25_NoFinalWithoutFinalToken ==
    [][(Handles /\ ~IsErrorMsg(Handled) /\ ~HasFinalToken(Handled.tokens)) =>
           /\ \A i \in 1..Len(Yielded) : ~Yielded[i].is_final
           /\ UNCHANGED <<final_buffer, original_buffer, translation_buffer>>
      ]_vars

\* C25: a session without translation holds "Hello" in its buffer and was
\* then sent a batch of one partial token; it has emitted the preview of the
\* first batch only
C25_PartialOnlyOnHeldBuffer ==
    /\ PlainMic
    /\ received = <<TokensMsg(<<tHello, pHe>>), TokensMsg(<<pHe>>)>>
    /\ final_buffer = <<tHello>>
    /\ Len(emitted) = 1
    /\ ~emitted[1].is_final

----------------------------------------------------------------------------
(* C26 *)

\* C26: no step of the task running _send_audio (a chunk sent, the finalize
\* message, the terminator, the two writes of the cancellation cleanup,
\* whether the write succeeds or fails) changes the Segmenter buffer, a
\* pairing buffer or the remembered preview, wherever it falls between the
\* steps of the receive loop.
C26_OutboundLeavesBuffers ==
    [][OutboundStep =>
           UNCHANGED <<final_buffer, original_buffer, translation_buffer,
                       last_partial>>]_vars

\* C26: a session without translation holds "Hello" and the preview "He";
\* its send task has sent audio, was cancelled and has run its cleanup
C26_CleanupOverHeldBuffer ==
    /\ PlainMic
    /\ final_buffer = <<tHello>>
    /\ last_partial = pHe.text
    /\ AudioSent > 0
    /\ Len(attempts) = 2
    /\ Finished(send_task)

----------------------------------------------------------------------------
(* File replay: SonioxProvider.transcribe_file and group_tokens_by_language *)

\* result messages a run of SpecFile receives
MaxFileBatches == 4

\* a final token whose text holds the marker </s> inside another </s>
tNested == Tok(<<"<", "<", "/", "s", ">", "/", "s", ">">>, TRUE, "en",
               Some(100), Some(950), "none", "None")

\* the token arrays the backend sends while a file is replayed
FileBatches ==
    {<<tHello>>, <<tWorld>>, <<tSemi>>, <<tEnd>>, <<tNested>>, <<tHello, pHe>>}

\* text.replace(token, ""): one pass from the left over the occurrences that
\* do not overlap; what the removal brings together is not searched again
RECURSIVE replace(_, _)
replace(text, token) ==
    IF Len(text) < Len(token) THEN text
    ELSE IF SubSeq(text, 1, Len(token)) = token
    THEN replace(SubSeq(text, Len(token) + 1, Len(text)), token)
    ELSE <<Head(text)>> \o replace(Tail(text), token)

\* text.replace(token, "").strip()
Removed(text, token) == strip(replace(text, token))

\* lines 151-156 of soniox_provider_helpers.py
clean_special_tokens(text) ==
    Removed(Removed(Removed(Removed(text, special_tokens[1]),
                            special_tokens[2]),
                    special_tokens[3]),
            special_tokens[4])

\* lines 303-310: the results transcribe_file keeps, as its token_data
final_tokens(results) ==
    LET Kept(seg) == seg.text # <<>> /\ seg.is_final
        kept == SelectSeq(results, Kept)
    IN  [i \in 1..Len(kept) |->
            [text |-> kept[i].text, timestamp |-> kept[i].timestamp,
             language |-> kept[i].language]]

\* token["text"] in ["<end>", "<fin>", "</s>", "[END]"]
IsSpecialToken(token) ==
    \E j \in 1..Len(special_tokens) : token.text = special_tokens[j]

NoSegment == [open |-> FALSE, text |-> <<>>, language |-> "None"]
OpenSegment(text, language) ==
    [open |-> TRUE, text |-> text, language |-> language]
Block(segment) ==
    [text |-> clean_special_tokens(strip(segment.text)),
     language |-> segment.language]

\* a grouping that opens a block for every token
GroupLoop_BlockPerToken(tokens, segments, current_segment) ==
    LET kept == SelectSeq(tokens, LAMBDA t : ~IsSpecialToken(t))
    IN  [i \in 1..Len(kept) |->
            Block(OpenSegment(kept[i].text, kept[i].language))]

\* lines 41-68 of soniox_file_transcriber.py: the loop over the rest of the
\* tokens, then the last block
RECURSIVE GroupLoop(_, _, _)
GroupLoop(tokens, segments, current_segment) ==
    IF tokens = <<>>
    THEN IF current_segment.open
         THEN Append(segments, Block(current_segment))
         ELSE segments
    ELSE LET token == Head(tokens)
         IN  IF IsSpecialToken(token)
             THEN GroupLoop(Tail(tokens), segments, current_segment)
             ELSE IF ~current_segment.open
                     \/ current_segment.language # token.language
             THEN GroupLoop(Tail(tokens),
                            IF current_segment.open
                            THEN Append(segments, Block(current_segment))
                            ELSE segments,
                            OpenSegment(token.text, token.language))
             ELSE GroupLoop(Tail(tokens), segments,
                            OpenSegment(current_segment.text \o <<" ">>
                                            \o token.text,
                                        current_segment.language))

group_tokens_by_language(tokens) == GroupLoop(tokens, <<>>, NoSegment)

\* Lines 296-321: the generator of transcribe_stream has ended and
\* transcribe_file returns.  An Exception that left the generator is returned
\* as {"error": ...}; a cancellation leaves transcribe_file.
transcribe_file ==
    /\ ~is_continuous
    /\ phase = "Closed"
    /\ ~file_result.returned
    /\ outcome = "StopAsyncIteration" \/ IsException(outcome)
    /\ file_result' =
           IF outcome # "StopAsyncIteration"
           THEN [returned |-> TRUE, error |-> TRUE, segments |-> <<>>]
           ELSE IF final_tokens(emitted) = <<>>
           THEN [returned |-> TRUE, error |-> FALSE, segments |-> <<>>]
           ELSE [returned |-> TRUE, error |-> FALSE,
                 segments |-> group_tokens_by_language(final_tokens(emitted))]
    /\ UNCHANGED <<translate, is_continuous, translation_enabled,
                   output_format, final_buffer, original_buffer,
                   translation_buffer, last_partial, current_message_id,
                   uuid_calls, channel, received, emitted, printed, units>>
    /\ UNCHANGED session

\* the replay of a file: the session receives results until the backend
\* closes the connection, ends, and transcribe_file returns
InitFile == InitWith({<<FALSE, FALSE>>}, {"json"})

NextFile ==
    \/ \E tokens \in FileBatches : RecvTokens(tokens, 1, MaxFileBatches)
    \/ RecvError(SessionError, MaxFileBatches)
    \/ ConnectionClosed("peer_closed")
    \/ \E result \in WriteResults(transport) : CleanupFinalize(result)
    \/ AwaitSendTask
    \/ transcribe_file

SpecFile == InitFile /\ [][NextFile]_vars

\* " ".join(texts)
RECURSIVE JoinSpaced(_)
JoinSpaced(texts) ==
    IF texts = <<>> THEN <<>>
    ELSE IF Len(texts) = 1 THEN texts[1]
    ELSE texts[1] \o <<" ">> \o JoinSpaced(Tail(texts))

\* The blocks are the maximal runs of consecutive same-language Segments, in
\* order: a block starts at the first Segment and wherever the language tag
\* differs from that of the Segment before, carries the tag of its run and
\* the texts of its run, joined by blanks, trimmed and cleaned of markers.
GroupedAs(blocks, segs) ==
    LET starts == {i \in 1..Len(segs) :
                       i = 1 \/ segs[i].language # segs[i - 1].language}
        Nth(k) == CHOOSE i \in starts :
                      Cardinality({j \in starts : j <= i}) = k
        EndOf(k) == IF k = Cardinality(starts) THEN Len(segs)
                    ELSE Nth(k + 1) - 1
    IN  /\ Len(blocks) = Cardinality(starts)
        /\ \A k \in 1..Len(blocks) :
               /\ blocks[k].language = segs[Nth(k)].language
               /\ blocks[k].text =
                      clean_special_tokens(
                          strip(JoinSpaced(TextsOf(
                              SubSeq(segs, Nth(k), EndOf(k))))))
        /\ \A k \in 1..(Len(blocks) - 1) :
               blocks[k].language # blocks[k + 1].language

Grouped == file_result.returned /\ ~file_result.error

\* C27 as stated: the block list returned after a file replay groups the
\* collected final Segments in arrival order, a block starting exactly where
\* the language tag changes: no two adjacent blocks carry the same tag and
\* each block is built from a maximal run of same-language Segments.
C27_BlocksOfCollectedSegments ==
    Grouped => GroupedAs(file_result.segments, final_tokens(emitted))

\* C27 amended: the same of the collected final Segments whose text is not
\* exactly a sentinel marker; a Segment that is a marker alone is dropped
\* before the grouping and does not end a run.
C27_BlocksOfSpokenSegments ==
    Grouped =>
        GroupedAs(file_result.segments,
                  SelectSeq(final_tokens(emitted),
                            LAMBDA t : ~IsSpecialToken(t)))

\* C27: the replay yielded "Hello" (en), the marker <end> (no language),
\* " world." (en) and "ok; " (bs), and two blocks were returned, en and bs
C27_MarkerInsideRun ==
    /\ Grouped
    /\ received = <<TokensMsg(<<tHello>>), TokensMsg(<<tEnd>>),
                    TokensMsg(<<tWorld>>), TokensMsg(<<tSemi>>)>>
    /\ Len(final_tokens(emitted)) = 4
    /\ Len(file_result.segments) = 2
    /\ file_result.segments[1].language = "en"
    /\ file_result.segments[1].text = tHello.text \o <<" ">> \o tWorld.text
    /\ file_result.segments[2].language = "bs"
    /\ file_result.segments[2].text = <<"o", "k", ";">>

----------------------------------------------------------------------------
(* C28 *)

\* the frames of a replay of n chunks; chunk k is the k-th audio frame
AudioFrames(n) == [k \in 1..n |-> "audio"]
Replay(n, closing) == <<"config">> \o AudioFrames(n) \o closing

\* C28 as stated: what a non-continuous session has sent is at every moment
\* a beginning of: the configuration, the audio chunks in source order, one
\* finalize message, one empty terminator frame.  No finalize message
\* precedes an audio frame, none is sent twice, nothing follows the
\* terminator.
C28_FinalizeThenTerminatorOnce ==
    ~is_continuous =>
        \E n \in 0..Len(outbound) :
            IsPrefix(outbound, Replay(n, <<"finalize", "terminator">>))

\* C28 amended: the same, except that a send task cancelled during its pause
\* while the transport is open sends a second finalize message before the
\* terminator.
C28_FinalizeTwiceOnlyWhenCancelled ==
    ~is_continuous =>
        \E n \in 0..Len(outbound) :
            \/ IsPrefix(outbound, Replay(n, <<"finalize", "terminator">>))
            \/ /\ cancel_requested
               /\ Len(attempts) > 0
               /\ IsPrefix(outbound,
                           Replay(n, <<"finalize", "finalize", "terminator">>))

\* C28: a replay of two chunks has sent both, the finalize message and the
\* terminator on an open transport, without being cancelled
C28_ReplayCompleted ==
    /\ ~is_continuous
    /\ transport = "open"
    /\ ~cancel_requested
    /\ send_task = "done"
    /\ outbound = Replay(2, <<"finalize", "terminator">>)

----------------------------------------------------------------------------
(* C31 *)

\* the preview Segments among the results
Previews(results) == SelectSeq(results, LAMBDA seg : ~seg.is_final)

\* the text of the preview emitted last, "" when none was emitted
LastPreviewText(results) ==
    LET previews == Previews(results)
    IN  IF previews = <<>> THEN <<>> ELSE previews[Len(previews)].text

\* C31: in a continuous session without translation a batch yields a preview
\* Segment exactly when the concatenated text of its partial tokens is
\* non-empty and differs from the text of the preview emitted last; the
\* preview is not final, has no confidence and carries that text, so no two
\* previews emitted one after the other have the same text.
C31_PreviewExactlyWhenChanged ==
    [][(PlainMic /\ Handles /\ ~IsErrorMsg(Handled)) =>
          LET partial_text ==
                  join(TextsOf(SelectSeq(Handled.tokens, IsPartial)))
              previews == Previews(Yielded)
          IN  /\ (previews # <<>>) <=>
                     (partial_text # <<>>
                      /\ partial_text # LastPreviewText(emitted))
              /\ previews # <<>> =>
                     /\ Len(previews) = 1
                     /\ previews[1].text = partial_text
                     /\ previews[1].confidence = NoMean
                     /\ previews[1].text # LastPreviewText(emitted)
      ]_vars

\* C31: a session without translation was sent one batch holding a final
\* token with a null confidence, " world." and the partial "He"; building the
\* final Segment raised and no preview was emitted
C31_PreviewLostWithBatch ==
    /\ PlainMic
    /\ received = <<TokensMsg(<<tNull, tWorld, pHe>>)>>
    /\ emitted = <<>>
    /\ last_partial = <<>>

----------------------------------------------------------------------------
(* Sessions fed tokens of both roles, partial tokens and empty texts *)

\* a partial token of the original role
pHi == Tok(<<"H", "i">>, FALSE, "en", Some(40), Some(600), "original", "None")
\* a final token of the original role without text
oEmpty == Tok(<<>>, TRUE, "en", Some(30), Some(700), "original", "None")
\* a final token of the original role that ends in a semicolon
oSemi == Tok(<<"o", "k", ";", " ">>, TRUE, "en", Some(75), Some(300),
             "original", "None")

RoleTokens == {oHi, oSo, oSemi, oEmpty, oNull, pHi, xBok, xDa}
\* tokens a run of SpecRoles receives
MaxRoleTokens == 3

RoleBatches(n) == UNION {SeqsOfLen(RoleTokens, k) : k \in 1..n}

\* a session of any mode that is sent such tokens
InitRoles == InitWith(Modes, {"json"})

NextRoles ==
    \/ \E tokens \in RoleBatches(MaxRoleTokens - units) :
           RecvTokens(tokens, Len(tokens), MaxRoleTokens)
    \/ ConnectionClosed("peer_closed")

SpecRoles == InitRoles /\ [][NextRoles]_vars

----------------------------------------------------------------------------
(* C32 *)

\* the final tokens received so far, in order
FinalTokensReceived == SelectSeq(TokensOf(received), LAMBDA t : t.is_final)

\* C32: no partial token enters a buffer.  Every token the Segmenter buffer
\* holds is final, every text a pairing buffer holds is the text of a final
\* token of its role that was received, and the text of every final Segment
\* is spelled by final tokens alone, in the order they arrived.
C32_OnlyFinalTokensBuffered ==
    /\ \A i \in 1..Len(final_buffer) : final_buffer[i].is_final
    /\ \A i \in 1..Len(original_buffer) :
           \E j \in 1..Len(FinalTokensReceived) :
               /\ FinalTokensReceived[j].translation_status = "original"
               /\ FinalTokensReceived[j].text = original_buffer[i]
    /\ \A i \in 1..Len(translation_buffer) :
           \E j \in 1..Len(FinalTokensReceived) :
               /\ FinalTokensReceived[j].translation_status = "translation"
               /\ FinalTokensReceived[j].text = translation_buffer[i]
    /\ \A i \in 1..Len(emitted) :
           IsFinalSegment(emitted[i]) =>
               Embeds(emitted[i].text, TextsOf(FinalTokensReceived))

\* C32: a session with translation was sent the original "So " and then the
\* partial "Hi" of the same role in a batch with the final "Hi."; the buffer
\* took the two final tokens and the Segment is spelled by them
C32_PartialBesideFinal ==
    /\ PairMic
    /\ received = <<TokensMsg(<<oSo>>), TokensMsg(<<pHi, oHi>>)>>
    /\ original_buffer = <<>>
    /\ Len(emitted) = 1
    /\ emitted[1].text = oSo.text \o oHi.text

----------------------------------------------------------------------------
(* C33 *)

\* the right-trimmed text ends in one of . ! ? , :
EndsInPairPunctuation(text) ==
    LET trimmed == rstrip(text)
    IN  trimmed # <<>> /\ trimmed[Len(trimmed)] \in {".", "!", "?", ",", ":"}

\* the final tokens of a role that have a text
Appendable(token, role) ==
    token.is_final /\ token.translation_status = role /\ token.text # <<>>

\* C33: in translation mode a batch of one token that is final, has a text
\* and the role r is appended to the buffer of r, which is flushed exactly
\* when its concatenated text, right-trimmed, then ends in one of . ! ? , :
\* (the Segment carries the whole text and translation_status r); any other
\* one-token batch appends and flushes nothing.  For batches of any length,
\* every flushed Segment of a role ends in such a character and what stays in
\* a buffer could not have been flushed.
C33_PairFlushExactlyOnPunctuation ==
    [][(PairMic /\ Handles /\ ~IsErrorMsg(Handled)) =>
          \A role \in {"original", "translation"} :
              LET segs == SegmentsOfRole(Yielded, role)
                  before == PairBuffer(role)
                  after == IF role = "original" THEN original_buffer'
                           ELSE translation_buffer'
                  tokens == Handled.tokens
              IN  /\ \A i \in 1..Len(segs) :
                         EndsInPairPunctuation(segs[i].text)
                  /\ \A k \in 1..Len(after) :
                         ~EndsInPairPunctuation(join(SubSeq(after, 1, k)))
                  /\ \A i \in 1..Len(after) : after[i] # <<>>
                  /\ Len(tokens) = 1 =>
                         IF ~Appendable(tokens[1], role)
                         THEN segs = <<>> /\ after = before
                         ELSE IF EndsInPairPunctuation(
                                     join(before) \o tokens[1].text)
                         THEN /\ after = <<>>
                              /\ Len(segs) = 1
                              /\ segs[1].text = join(before) \o tokens[1].text
                         ELSE /\ segs = <<>>
                              /\ after = Append(before, tokens[1].text)
      ]_vars

\* C33: a session with translation was sent the original "No." whose
\* start_ms is null; the text ends in "." and stays in the buffer unflushed
C33_FlushAbandoned ==
    /\ PairMic
    /\ received = <<TokensMsg(<<oNull>>)>>
    /\ original_buffer = <<oNull.text>>
    /\ emitted = <<>>

----------------------------------------------------------------------------
(* C34 *)

\* no token of the batch is appended to the buffer of the role
NoneOfRole(tokens, role) ==
    \A i \in 1..Len(tokens) : ~Appendable(tokens[i], role)

----------------------------------------------------------------------------
(* C35 *)

\* C35: no block returned by a file replay contains one of the markers
\* <end>, <fin>, </s>, [END] anywhere in its text, whatever the texts of the
\* collected Segments, and cleaning the text of a block again changes nothing.
C35_BlocksFreeOfMarkers ==
    Grouped =>
        \A k \in 1..Len(file_result.segments) :
            /\ ~HasSentinel(file_result.segments[k].text)
            /\ clean_special_tokens(file_result.segments[k].text)
                   = file_result.segments[k].text

\* C35: the replay yielded one Segment whose text is "<</s>/s>", and the
\* block returned for it has the text "</s>"
C35_MarkerLeftByRemoval ==
    /\ Grouped
    /\ received = <<TokensMsg(<<tNested>>)>>
    /\ Len(file_result.segments) = 1
    /\ file_result.segments[1].text = special_tokens[3]

----------------------------------------------------------------------------
(* C36 *)

\* the translation records printed before the first original record
Unpreceded == {i \in Translations : \A j \in Originals : j > i}

\* C36: a translation Segment flushed before any original Segment of the run
\* is printed all the same, with the stored id, which is still absent; it
\* gets no fresh id, and printing it leaves the stored id absent.
C36_UnprecededTranslationHasNoId ==
    /\ \A i \in Unpreceded : printed[i].message_id = NoId
    /\ Originals = {} => current_message_id = NoId
    /\ Cardinality(Translations) = Len(SegmentsOfRole(emitted, "translation"))
    /\ Cardinality(Originals) = Len(SegmentsOfRole(emitted, "original"))

\* C36: the translations "Bok." and "da, " were printed, no original yet
C36_TranslationFirst ==
    /\ PairMic
    /\ output_format = "json"
    /\ received = <<TokensMsg(<<xBok>>), TokensMsg(<<xDa>>)>>
    /\ Len(printed) = 2
    /\ Unpreceded = {1, 2}
    /\ printed[1].message_id = NoId
    /\ current_message_id = NoId

----------------------------------------------------------------------------
(* One session after the other on the same SonioxProvider *)

\* sessions started again and result messages received, in a run of SpecRerun
MaxRerun == 3

RerunBatches(translating) ==
    IF translating THEN {<<oSo>>, <<oHi>>} ELSE {<<tHello, pHe>>, <<tWorld>>}

\* a next session that begins with empty buffers
NextSessionStarts_FreshBuffers(continuous, next_translate) ==
    /\ phase = "Closed"
    /\ send_task = "none" \/ Finished(send_task)
    /\ units + 1 <= MaxRerun
    /\ units' = units + 1
    /\ is_continuous' = continuous
    /\ translate' = next_translate
    /\ translation_enabled' = next_translate
    /\ final_buffer' = <<>>
    /\ original_buffer' = <<>>
    /\ translation_buffer' = <<>>
    /\ last_partial' = <<>>
    /\ channel' = "open"
    /\ received' = <<>>
    /\ emitted' = <<>>
    /\ phase' = "Connecting"
    /\ transport' = "unopened"
    /\ send_task' = "none"
    /\ outbound' = <<>>
    /\ attempts' = <<>>
    /\ cancel_requested' = FALSE
    /\ caller_cancelled' = "no"
    /\ outcome' = "running"
    /\ fault' = {}
    /\ UNCHANGED <<file_result, output_format, current_message_id,
                   uuid_calls, printed>>

\* Lines 44-72 of the next call of transcribe_stream on a provider whose
\* session has ended.  The call assigns _translation_enabled (line 68) and
\* has its own connection, send task, receive loop and last_partial (line 142);
\* _final_buffer, _original_buffer and _translation_buffer are attributes of
\* the provider, created only if missing (lines 170-173, 196-197), and are
\* taken over as the ended session left them.  `received` and `emitted` are
\* those of the session that runs.  The call is made once the send task of
\* the ended session is over.
NextSessionStarts(continuous, next_translate) ==
    /\ phase = "Closed"
    /\ send_task = "none" \/ Finished(send_task)
    /\ units + 1 <= MaxRerun
    /\ units' = units + 1
    /\ is_continuous' = continuous
    /\ translate' = next_translate
    /\ translation_enabled' = next_translate
    /\ last_partial' = <<>>
    /\ channel' = "open"
    /\ received' = <<>>
    /\ emitted' = <<>>
    /\ phase' = "Connecting"
    /\ transport' = "unopened"
    /\ send_task' = "none"
    /\ outbound' = <<>>
    /\ attempts' = <<>>
    /\ cancel_requested' = FALSE
    /\ caller_cancelled' = "no"
    /\ outcome' = "running"
    /\ fault' = {}
    /\ UNCHANGED <<file_result, output_format, final_buffer, original_buffer,
                   translation_buffer, current_message_id, uuid_calls,
                   printed>>

InitRerun == InitSessionWith({<<TRUE, FALSE>>, <<TRUE, TRUE>>}, {"json"})

NextRerun ==
    \/ Connect
    \/ Configure
    \/ \E tokens \in RerunBatches(translation_enabled) :
           RecvTokens(tokens, 1, MaxRerun)
    \/ ConnectionClosed("peer_closed")
    \/ \E result \in WriteResults(transport) : CleanupFinalize(result)
    \/ AwaitSendTask
    \/ RecvFails
    \/ CallerCancels
    \/ CancelDelivered
    \/ CancelAllTasks
    \/ \E next_translate \in BOOLEAN : NextSessionStarts(TRUE, next_translate)

SpecRerun == InitRerun /\ [][NextRerun]_vars

----------------------------------------------------------------------------
(* C37 *)

Buffers == <<final_buffer, original_buffer, translation_buffer>>

\* C37: the step that ends a session (backend close, fault, cancellation)
\* leaves the three buffers as they are and emits no final Segment from them;
\* the step that starts the next session on the provider leaves them as they
\* are too; and the first Segment a session flushes from a buffer begins
\* with what the buffer held, so with the tokens an earlier session left.
C37_BuffersOutliveSession ==
    [][/\ (phase # "Closed" /\ phase' = "Closed") =>
              /\ UNCHANGED Buffers
              /\ \A i \in 1..Len(Yielded) : ~IsFinalSegment(Yielded[i])
       /\ (phase = "Closed" /\ phase' = "Connecting") => UNCHANGED Buffers
       /\ (is_continuous /\ Handles /\ ~IsErrorMsg(Handled)) =>
              \A role \in {"original", "translation", "absent"} :
                  LET segs == SegmentsOfRole(Yielded, role)
                      held == IF role = "absent"
                              THEN join(TextsOf(final_buffer))
                              ELSE join(PairBuffer(role))
                  IN  segs # <<>> => IsPrefix(held, segs[1].text)
      ]_vars

\* C37: a session without translation was sent " world." alone and has
\* emitted "Hello world.": "Hello" was left in the buffer by the session
\* before it
C37_SegmentBeginsWithLeftover ==
    /\ PlainMic
    /\ received = <<TokensMsg(<<tWorld>>)>>
    /\ Len(emitted) = 1
    /\ emitted[1].is_final
    /\ emitted[1].text = tHello.text \o tWorld.text
    /\ final_buffer = <<>>

----------------------------------------------------------------------------
(* C38 *)

\* the send task was never created, or has completed, failed or been cancelled
OutboundStopped == send_task = "none" \/ Finished(send_task)

\* C38: however a session ends, when its Segment stream finishes the send
\* task has stopped (it completed, failed, or was cancelled and awaited), and
\* a session that has ended sends no further frame.
C38_OutboundStoppedBeforeEnd ==
    [][/\ phase' = "Closed" => OutboundStopped'
       /\ phase = "Closed" => outbound' = outbound
      ]_vars

\* C38: reading the next message failed; the session has emitted its error
\* Segment and ended while the send task is still sending audio.
C38_EndedWhileSending ==
    /\ phase = "Closed"
    /\ outcome = "StopAsyncIteration"
    /\ "receive" \in fault
    /\ caller_cancelled = "no"
    /\ EndedInError
    /\ send_task = "sending"

----------------------------------------------------------------------------
(* C39 *)

\* a text without its blanks
Letters(text) == SelectSeq(text, LAMBDA c : c # " ")

\* a can be read off b from left to right
RECURSIVE IsSubsequence(_, _)
IsSubsequence(a, b) ==
    IF a = <<>> THEN TRUE
    ELSE IF b = <<>> THEN FALSE
    ELSE IF Head(a) = Head(b) THEN IsSubsequence(Tail(a), Tail(b))
    ELSE IsSubsequence(a, Tail(b))

\* the final tokens received whose text holds no sentinel marker
SpokenFinalTokens ==
    SelectSeq(FinalTokensReceived, LAMBDA t : ~HasSentinel(t.text))

BlockTexts ==
    [k \in 1..Len(file_result.segments) |-> file_result.segments[k].text]

\* C39: after a file replay the returned blocks spell, in arrival order, the
\* text of every final token received whose text holds no marker, whatever
\* else its batch held; and when the backend sent no error message and no
\* marker, the blocks spell nothing else, so each such token is there once.
C39_EveryFinalTokenInABlock ==
    Grouped =>
        /\ IsSubsequence(Letters(join(TextsOf(SpokenFinalTokens))),
                         Letters(join(BlockTexts)))
        /\ (/\ \A i \in 1..Len(received) : ~IsErrorMsg(received[i])
            /\ SpokenFinalTokens = FinalTokensReceived)
               => Len(Letters(join(BlockTexts)))
                      = Len(Letters(join(TextsOf(SpokenFinalTokens))))

\* C39: the replay received the final token "Hello" together with the partial
\* token "He", then the final token " world."; the one block returned reads
\* "world."
C39_FinalLostBesidePartial ==
    /\ Grouped
    /\ received = <<TokensMsg(<<tHello, pHe>>), TokensMsg(<<tWorld>>)>>
    /\ Len(file_result.segments) = 1
    /\ file_result.segments[1].text = strip(tWorld.text)

----------------------------------------------------------------------------
(* C40 *)

\* the batch handled in this step raised while one of its Segments was built
BatchFails ==
    /\ PlainMic
    /\ Handles
    /\ ~IsErrorMsg(Handled)
    /\ LET f == PlainFinals(Handled.tokens, final_buffer, translation_enabled)
           p == PlainPartials(Handled.tokens, last_partial)
       IN  f.raised \/ p.raised

\* C40: a batch whose handling raises is skipped: the step yields no Segment
\* and leaves the Segmenter buffer and the remembered preview as they were
\* before the batch.
C40_FailedBatchLeavesNoTrace ==
    [][BatchFails =>
          /\ Yielded = <<>>
          /\ final_buffer' = final_buffer
          /\ last_partial' = last_partial
      ]_vars

\* C40: a session without translation was sent a final token with a null
\* confidence and then the well-formed " world."; nothing was emitted and the
\* buffer holds both tokens
C40_PoisonedBufferKept ==
    /\ PlainMic
    /\ received = <<TokensMsg(<<tNull>>), TokensMsg(<<tWorld>>)>>
    /\ emitted = <<>>
    /\ final_buffer = <<tNull, tWorld>>

====
